---- MODULE Spec2Model ----
(***************************************************************************)
(* A model of sqlite-integrated's query builder (Query), of the helpers    *)
(* it uses (utils) and of the part of Database and of the SQL engine that  *)
(* the builder talks to.                                                   *)
(*                                                                         *)
(* Text is a sequence of tokens (one-character strings and SQL keywords),  *)
(* so that splitting, joining and quoting are computed and not assumed.    *)
(* A python value is a record [ty, s]: its type and its text.              *)
(***************************************************************************)
EXTENDS Integers, Sequences, FiniteSets, TLC

VARIABLES
  dbs,      \* the databases: DbIds -> [TableNames -> table or NoTable]
  q_db,     \* Query._db: the attached Database, or None
  sql,      \* Query.sql: the fragments appended so far
  history,  \* Query.history
  fields,   \* Query.fields
  table,    \* Query.table
  col,      \* Query.col (set by WHERE for a following LIKE; <<>> until then)
  ret,      \* the outcome of the last call
  conn,     \* the connection of each Database: connected, foreign keys, path
  file,     \* the tables that save or close last committed for each Database
  gen       \* the lazy sequence of records that the caller holds

\* what the builder and the statements of the facade leave alone
aux == <<conn, file, gen>>

vars == <<dbs, q_db, sql, history, fields, table, col, ret, conn, file, gen>>

\* ------------------------------------------------------------------ bounds
\* the largest key that an insert may generate
MaxId == 3
\* the longest text drawn
MaxLen == 2
\* the widest row drawn
MaxWidth == 3

\* ------------------------------------------------------------ python values
None == "None"

Null == [ty |-> "null", s |-> <<>>]
IntV(n) == [ty |-> "int", s |-> <<n>>]
StrV(t) == [ty |-> "str", s |-> t]
Obj == [ty |-> "object", s |-> <<>>]
\* a float with the text that str gives it, True and False, a bytes object,
\* a list of texts of one token each, and a list whose elements are not all
\* texts
FloatV(t) == [ty |-> "float", s |-> t]
BoolV(b) == [ty |-> "bool", s |-> IF b THEN <<"True">> ELSE <<"False">>]
BytesV(t) == [ty |-> "bytes", s |-> t]
ListV(l) == [ty |-> "list", s |-> l]
MixedListV(l) == [ty |-> "mixed list", s |-> l]

NoValue == StrV(<<>>)

\* the argument that a call leaves out
Omitted == [ty |-> "omitted", s |-> <<>>]

\* ------------------------------------------------------------------- utils
RECURSIVE remove_spaces(_)
remove_spaces(t) ==
  IF t = <<>> THEN <<>>
  ELSE IF Head(t) = " " THEN remove_spaces(Tail(t))
  ELSE <<Head(t)>> \o remove_spaces(Tail(t))

RECURSIVE split_commas(_, _)
split_commas(t, cur) ==
  IF t = <<>> THEN <<cur>>
  ELSE IF Head(t) = "," THEN <<cur>> \o split_commas(Tail(t), <<>>)
  ELSE split_commas(Tail(t), cur \o <<Head(t)>>)

RECURSIVE join(_, _)
join(sep, parts) ==
  IF parts = <<>> THEN <<>>
  ELSE IF Len(parts) = 1 THEN Head(parts)
  ELSE Head(parts) \o sep \o join(sep, Tail(parts))

\* a piece of text as a name: a name is one token, and "?" stands for the
\* text that is no name of the model (empty, or several tokens run together)
Word(piece) == IF Len(piece) = 1 THEN piece[1] ELSE "?"

\* utils.string_to_list: the names of a comma separated text, spaces ignored
string_to_list(string) ==
  LET pieces == split_commas(remove_spaces(string), <<>>)
  IN [n \in 1..Len(pieces) |-> Word(pieces[n])]

RECURSIVE double_quotes(_)
double_quotes(t) ==
  IF t = <<>> THEN <<>>
  ELSE IF Head(t) = "'" THEN <<"'", "'">> \o double_quotes(Tail(t))
  ELSE <<Head(t)>> \o double_quotes(Tail(t))

\* utils.value_to_sql_value: [ok, txt]; not ok is the TypeError. A bool is an
\* instance of int; join raises the TypeError for an element that is no text.
value_to_sql_value(value) ==
  IF value.ty = "str" THEN [ok |-> TRUE, txt |-> <<"'">> \o double_quotes(value.s) \o <<"'">>]
  ELSE IF value.ty \in {"int", "bool"} THEN [ok |-> TRUE, txt |-> value.s]
  ELSE IF value.ty = "float" THEN [ok |-> TRUE, txt |-> value.s]
  ELSE IF value.ty = "null" THEN [ok |-> TRUE, txt |-> <<"null">>]
  ELSE IF value.ty = "list" THEN [ok |-> TRUE, txt |-> join(<<",">>, [n \in 1..Len(value.s) |-> <<value.s[n]>>])]
  ELSE [ok |-> FALSE, txt |-> <<>>]

\* ----------------------------------------------------------------- inputs
DbIds == {"d1", "d2"}
TableNames == {"t", "n"}
ColNames == {"i", "a", "b"}

NoTable == [cols |-> <<>>, rows |-> <<>>, is |-> FALSE]
Table(cols, rows) == [cols |-> cols, rows |-> rows, is |-> TRUE]

\* --------------------------------------------------------------- catalog
\* the names of the tables that the file held at the last commit
get_table_names_committed(d) == {t \in TableNames : file[d][t].is}

\* Database.get_table_names
get_table_names(d) == {t \in TableNames : dbs[d][t].is}

\* Database.is_table
is_table(d, t) == t \in get_table_names(d)

\* Database.get_column_names: [ok, names]; not ok is the DatabaseError
get_column_names(d, t) ==
  IF ~is_table(d, t) THEN [ok |-> FALSE, names |-> <<>>]
  ELSE [ok |-> TRUE, names |-> dbs[d][t].cols]

\* ------------------------------------------------------------ the builder
Range(f) == {f[n] : n \in DOMAIN f}

FieldsNone == [k |-> "None", l |-> <<>>]
FieldsStar == [k |-> "*", l |-> <<>>]
FieldsList(l) == [k |-> "list", l |-> l]

\* One fragment of Query.sql. tag: the clause that appended it; tbl, txt,
\* keys, vals: the table name, the verbatim text, the column names and the
\* literals it holds; sp: whether its text ends with a space.
Frag(tag, tbl, txt, keys, vals, sp) ==
  [tag |-> tag, tbl |-> tbl, txt |-> txt, keys |-> keys, vals |-> vals, sp |-> sp]

\* A value returned by run. k: "None", "raw" (the list that fetchall
\* returned) or "table" (the generator of raw_table_to_table); recs: the
\* records the generator yields; err: the exception it raises when it is
\* consumed.
Val(k, recs, err) == [k |-> k, recs |-> recs, err |-> err]

NoVal == Val("None", <<>>, "")

\* a mapping and the table it is tagged with (None: a plain dict)
Entry(tbl, keys, vals) == [tbl |-> tbl, keys |-> keys, vals |-> vals]

NoData == Entry(None, <<>>, <<>>)

\* The outcome of a call. err: the class of the exception raised, "" when
\* the call returned; order: whether valid_prefixes accepted the call;
\* arg, raw: the db and raw arguments of run; on: the Database whose cursor
\* executed sql; engine: the class of the exception the engine raised, ""
\* when it raised none; text: the sql an exception's message quotes;
\* fetched: what cursor.fetchall() returned; val: the value returned;
\* data: the mapping or the value that the call was given; name, fill,
\* part: the table, fill_null and part arguments of a Database method;
\* entry: the entry of add_entry or update_entry as the call left it.
Ret(op, err, order) ==
  [op |-> op, err |-> err, order |-> order, arg |-> None, raw |-> FALSE, on |-> None,
   engine |-> "", text |-> <<>>, fetched |-> <<>>, val |-> NoVal,
   data |-> NoData, name |-> None, fill |-> FALSE, part |-> FALSE, entry |-> NoData]

\* the outcome of a clause call that was given a table name
RetName(op, err, name) == [Ret(op, err, TRUE) EXCEPT !.name = name]

\* the outcome of a clause call that was given data or a value
RetData(op, err, keys, vals) == [Ret(op, err, TRUE) EXCEPT !.data = Entry(None, keys, vals)]

Top == IF Len(history) > 0 THEN history[Len(history)] ELSE None

\* Query.valid_prefixes: FALSE is the QueryError
valid_prefixes(prefixes) == Top \in prefixes

\* SELECT also accepted after VALUES
SELECT_prefixes_after_values == {None, "VALUES"}

SELECT_prefixes == {None}
FROM_prefixes == {"SELECT"}
\* WHERE not accepted after DELETE_FROM
WHERE_prefixes_no_delete == {"FROM", "SET"}

WHERE_prefixes == {"FROM", "SET", "DELETE_FROM"}
LIKE_prefixes == {"WHERE"}
UPDATE_prefixes == {None}
SET_prefixes == {"UPDATE"}
INSERT_INTO_prefixes == {None}
VALUES_prefixes == {"INSERT_INTO"}
\* DELETE_FROM also accepted after SELECT
DELETE_FROM_prefixes_after_select == {None, "SELECT"}

DELETE_FROM_prefixes == {None}

\* the tag pushed before valid_prefixes is called
Rejected_after_push(op) ==
  /\ ret' = Ret(op, "QueryError", FALSE)
  /\ history' = Append(history, op)
  /\ UNCHANGED <<sql, fields, table, col>>

\* a call that valid_prefixes rejects
Rejected(op) ==
  /\ ret' = Ret(op, "QueryError", FALSE)
  /\ UNCHANGED <<sql, history, fields, table, col>>

\* Query.__init__
Query(db) ==
  /\ q_db' = db
  /\ sql' = <<>>
  /\ history' = <<>>
  /\ fields' = FieldsNone
  /\ table' = None
  /\ col' = <<>>
  /\ ret' = Ret("Query", "", TRUE)
  /\ UNCHANGED <<dbs, aux>>

\* Query.SELECT
SELECT(selection) ==
  /\ UNCHANGED <<dbs, q_db, table, col, aux>>
  /\ IF ~valid_prefixes(SELECT_prefixes) THEN Rejected("SELECT")
     ELSE /\ history' = Append(history, "SELECT")
          /\ IF selection.k = "str"
             THEN /\ fields' = IF selection.s = <<"*">> THEN FieldsStar
                               ELSE FieldsList(string_to_list(selection.s))
                  /\ sql' = Append(sql, Frag("SELECT", None, selection.s, <<>>, <<>>, TRUE))
                  /\ ret' = Ret("SELECT", "", TRUE)
             ELSE IF selection.k = "list"
             THEN /\ fields' = FieldsList(selection.s)
                  /\ sql' = Append(sql, Frag("SELECT", None,
                               join(<<",", " ">>, [n \in 1..Len(selection.s) |-> <<selection.s[n]>>]),
                               <<>>, <<>>, TRUE))
                  /\ ret' = Ret("SELECT", "", TRUE)
             ELSE /\ ret' = Ret("SELECT", "QueryError", TRUE)
                  /\ UNCHANGED <<sql, fields>>

\* the tag pushed before the selected fields are validated, as the other
\* clauses do
FROM_pushes_first(table_name) ==
  /\ UNCHANGED <<dbs, q_db, fields, col, aux>>
  /\ IF ~valid_prefixes(FROM_prefixes) THEN Rejected("FROM")
     ELSE /\ table' = table_name
          /\ history' = Append(history, "FROM")
          /\ IF q_db # None /\ ~get_column_names(q_db, table_name).ok
             THEN ret' = RetName("FROM", "DatabaseError", table_name) /\ sql' = sql
             ELSE IF fields # FieldsStar /\ q_db # None /\ fields = FieldsNone
             THEN ret' = RetName("FROM", "TypeError", table_name) /\ sql' = sql
             ELSE IF /\ fields # FieldsStar
                     /\ q_db # None
                     /\ ~(Range(fields.l) \subseteq Range(get_column_names(q_db, table_name).names))
             THEN ret' = RetName("FROM", "QueryError", table_name) /\ sql' = sql
             ELSE /\ sql' = Append(sql, Frag("FROM", table_name, <<>>, <<>>, <<>>, TRUE))
                  /\ ret' = RetName("FROM", "", table_name)

\* Query.FROM
FROM(table_name) ==
  /\ UNCHANGED <<dbs, q_db, fields, col, aux>>
  /\ IF ~valid_prefixes(FROM_prefixes) THEN Rejected("FROM")
     ELSE /\ table' = table_name
          /\ IF q_db # None /\ ~get_column_names(q_db, table_name).ok
             THEN /\ ret' = RetName("FROM", "DatabaseError", table_name)
                  /\ UNCHANGED <<sql, history>>
             ELSE IF fields # FieldsStar /\ q_db # None /\ fields = FieldsNone
             THEN \* set(None)
                  /\ ret' = RetName("FROM", "TypeError", table_name)
                  /\ UNCHANGED <<sql, history>>
             ELSE IF /\ fields # FieldsStar
                     /\ q_db # None
                     /\ ~(Range(fields.l) \subseteq Range(get_column_names(q_db, table_name).names))
             THEN /\ ret' = RetName("FROM", "QueryError", table_name)
                  /\ UNCHANGED <<sql, history>>
             ELSE /\ history' = Append(history, "FROM")
                  /\ sql' = Append(sql, Frag("FROM", table_name, <<>>, <<>>, <<>>, TRUE))
                  /\ ret' = RetName("FROM", "", table_name)

\* the fragment that Query.WHERE appends for a column text and a value
\* (the empty string: none): [ok, frag]; not ok is the TypeError of the value
WHERE_fragment(col_name, v) ==
  IF v = NoValue THEN [ok |-> TRUE, frag |-> Frag("WHERE", None, col_name, <<>>, <<>>, TRUE)]
  ELSE IF v = Null
  THEN [ok |-> TRUE, frag |-> Frag("WHERE", None, col_name, <<"is">>, <<<<"null">>>>, FALSE)]
  ELSE [ok |-> value_to_sql_value(v).ok,
        frag |-> Frag("WHERE", None, col_name, <<"=">>, <<value_to_sql_value(v).txt>>, FALSE)]

\* Query.WHERE. A call without value passes Omitted, and value is then its
\* default, the empty string.
WHERE(col_name, value) ==
  LET v == IF value = Omitted THEN NoValue ELSE value
      Out(err) == RetData("WHERE", err, <<>>, <<value>>)
  IN /\ UNCHANGED <<dbs, q_db, fields, table, aux>>
     /\ IF ~valid_prefixes(WHERE_prefixes) THEN Rejected("WHERE")
        ELSE /\ history' = Append(history, "WHERE")
             /\ col' = IF v = NoValue /\ "=" \notin Range(col_name)
                       THEN remove_spaces(col_name) ELSE col
             /\ IF WHERE_fragment(col_name, v).ok
                THEN /\ sql' = Append(sql, WHERE_fragment(col_name, v).frag)
                     /\ ret' = Out("")
                ELSE /\ sql' = sql
                     /\ ret' = Out("TypeError")

\* Query.LIKE
LIKE(pattern) ==
  /\ UNCHANGED <<dbs, q_db, fields, table, col, aux>>
  /\ IF ~valid_prefixes(LIKE_prefixes) THEN Rejected("LIKE")
     ELSE /\ history' = Append(history, "LIKE")
          /\ IF value_to_sql_value(pattern).ok
             THEN /\ sql' = Append(sql, Frag("LIKE", None, <<>>, <<>>,
                                             <<value_to_sql_value(pattern).txt>>, TRUE))
                  /\ ret' = RetData("LIKE", "", <<>>, <<pattern>>)
             ELSE /\ sql' = sql
                  /\ ret' = RetData("LIKE", "TypeError", <<>>, <<pattern>>)

FieldSet(f) == IF f.k = "*" THEN {"*"} ELSE Range(f.l)

\* utils.dict_to_sql: [ok, vals]; not ok is the TypeError of a value
dict_to_sql(data) ==
  [ok |-> \A n \in 1..Len(data.vals) : value_to_sql_value(data.vals[n]).ok,
   vals |-> [n \in 1..Len(data.vals) |-> value_to_sql_value(data.vals[n]).txt]]

\* Query.UPDATE
UPDATE(table_name) ==
  /\ UNCHANGED <<dbs, q_db, col, aux>>
  /\ IF ~valid_prefixes(UPDATE_prefixes) THEN Rejected("UPDATE")
     ELSE /\ history' = Append(history, "UPDATE")
          /\ IF q_db # None /\ ~is_table(q_db, table_name)
             THEN /\ ret' = RetName("UPDATE", "QueryError", table_name)
                  /\ UNCHANGED <<sql, fields, table>>
             ELSE /\ fields' = IF q_db # None
                               THEN FieldsList(get_column_names(q_db, table_name).names)
                               ELSE fields
                  /\ table' = table_name
                  /\ sql' = Append(sql, Frag("UPDATE", table_name, <<>>, <<>>, <<>>, TRUE))
                  /\ ret' = RetName("UPDATE", "", table_name)

\* Query.SET
SET(data) ==
  /\ UNCHANGED <<dbs, q_db, fields, table, col, aux>>
  /\ IF ~valid_prefixes(SET_prefixes) THEN Rejected("SET")
     ELSE /\ history' = Append(history, "SET")
          /\ IF fields = FieldsNone
             THEN \* issubset(None)
                  /\ ret' = RetData("SET", "TypeError", data.keys, data.vals)
                  /\ sql' = sql
             ELSE IF ~(Range(data.keys) \subseteq FieldSet(fields))
             THEN /\ ret' = RetData("SET", "QueryError", data.keys, data.vals)
                  /\ sql' = sql
             ELSE IF ~dict_to_sql(data).ok
             THEN /\ ret' = RetData("SET", "TypeError", data.keys, data.vals)
                  /\ sql' = sql
             ELSE /\ sql' = Append(sql, Frag("SET", None, <<>>, data.keys, dict_to_sql(data).vals, TRUE))
                  /\ ret' = RetData("SET", "", data.keys, data.vals)

\* Query.INSERT_INTO
INSERT_INTO(table_name) ==
  /\ UNCHANGED <<dbs, q_db, col, aux>>
  /\ IF ~valid_prefixes(INSERT_INTO_prefixes) THEN Rejected("INSERT_INTO")
     ELSE /\ history' = Append(history, "INSERT_INTO")
          /\ table' = table_name
          /\ IF q_db # None /\ ~get_column_names(q_db, table_name).ok
             THEN /\ ret' = RetName("INSERT_INTO", "DatabaseError", table_name)
                  /\ UNCHANGED <<sql, fields>>
             ELSE /\ fields' = IF q_db # None
                               THEN FieldsList(get_column_names(q_db, table_name).names)
                               ELSE fields
                  /\ sql' = Append(sql, Frag("INSERT_INTO", table_name, <<>>, <<>>, <<>>, TRUE))
                  /\ ret' = RetName("INSERT_INTO", "", table_name)

\* Query.VALUES
VALUES(data) ==
  /\ UNCHANGED <<dbs, q_db, fields, table, col, aux>>
  /\ IF ~valid_prefixes(VALUES_prefixes) THEN Rejected("VALUES")
     ELSE /\ history' = Append(history, "VALUES")
          /\ IF fields = FieldsNone
             THEN \* issubset(None)
                  /\ ret' = RetData("VALUES", "TypeError", data.keys, data.vals)
                  /\ sql' = sql
             ELSE IF ~(Range(data.keys) \subseteq FieldSet(fields))
             THEN /\ ret' = RetData("VALUES", "QueryError", data.keys, data.vals)
                  /\ sql' = sql
             ELSE IF ~dict_to_sql(data).ok
             THEN /\ ret' = RetData("VALUES", "TypeError", data.keys, data.vals)
                  /\ sql' = sql
             ELSE /\ sql' = Append(sql, Frag("VALUES", None, <<>>, data.keys, dict_to_sql(data).vals, TRUE))
                  /\ ret' = RetData("VALUES", "", data.keys, data.vals)

\* Query.DELETE_FROM
DELETE_FROM(table_name) ==
  /\ UNCHANGED <<dbs, q_db, fields, col, aux>>
  /\ IF ~valid_prefixes(DELETE_FROM_prefixes) THEN Rejected("DELETE_FROM")
     ELSE /\ history' = Append(history, "DELETE_FROM")
          /\ IF q_db # None /\ table_name \notin get_table_names(q_db)
             THEN /\ ret' = RetName("DELETE_FROM", "QueryError", table_name)
                  /\ UNCHANGED <<sql, table>>
             ELSE /\ table' = table_name
                  /\ sql' = <<Frag("DELETE_FROM", table_name, <<>>, <<>>, <<>>, TRUE)>>
                  /\ ret' = RetName("DELETE_FROM", "", table_name)

\* ------------------------------------------------------------- the engine
\* What sqlite3 does with the statements the builder can produce. A table is
\* [cols, rows, is]; the column "i" is its INTEGER PRIMARY KEY, the other
\* columns are TEXT.
Digits == <<"0", "1", "2", "3", "4", "5", "6", "7", "8", "9">>

DigitVal(c) == CHOOSE n \in 0..9 : Digits[n + 1] = c

RECURSIVE numeral(_)
numeral(n) ==
  IF n < 10 THEN <<Digits[n + 1]>>
  ELSE numeral(n \div 10) \o <<Digits[(n % 10) + 1]>>

RECURSIVE number(_)
number(t) ==
  IF Len(t) = 1 THEN DigitVal(t[1])
  ELSE 10 * number(SubSeq(t, 1, Len(t) - 1)) + DigitVal(t[Len(t)])

IsNumeral(t) == t # <<>> /\ \A n \in 1..Len(t) : t[n] \in Range(Digits)

RECURSIVE undouble(_)
undouble(t) ==
  IF t = <<>> THEN <<>>
  ELSE IF Len(t) >= 2 /\ t[1] = "'" /\ t[2] = "'" THEN <<"'">> \o undouble(SubSeq(t, 3, Len(t)))
  ELSE <<Head(t)>> \o undouble(Tail(t))

IsLiteral(t) ==
  \/ t = <<"null">>
  \/ IsNumeral(t)
  \/ Len(t) >= 2 /\ t[1] = "'" /\ t[Len(t)] = "'"

\* the value a literal denotes
sql_literal(t) ==
  IF t = <<"null">> THEN Null
  ELSE IF t[1] = "'" THEN StrV(undouble(SubSeq(t, 2, Len(t) - 1)))
  ELSE [ty |-> "int", s |-> t]

Bool(b) == [ty |-> "int", s |-> IF b THEN <<"1">> ELSE <<"0">>]

\* a value as a condition: a number other than 0
Truthy(v) == v # Null /\ v.s # <<>> /\ v.s[1] \in (Range(Digits) \ {"0"})

RECURSIVE like(_, _)
like(p, t) ==
  IF p = <<>> THEN t = <<>>
  ELSE IF Head(p) = "%" THEN like(Tail(p), t) \/ (t # <<>> /\ like(p, Tail(t)))
  ELSE IF t = <<>> THEN FALSE
  ELSE (Head(p) = "_" \/ Head(p) = Head(t)) /\ like(Tail(p), Tail(t))

ColIdx(cols, c) == CHOOSE n \in 1..Len(cols) : cols[n] = c

EqAt(t) == CHOOSE n \in 1..Len(t) : t[n] = "="

\* the expression of a WHERE fragment: column, operator, literal
WhereExpr(w) ==
  IF w.keys # <<>> THEN [c |-> remove_spaces(w.txt), op |-> w.keys[1], lit |-> w.vals[1]]
  ELSE LET r == remove_spaces(w.txt)
       IN IF "=" \in Range(r)
          THEN [c |-> SubSeq(r, 1, EqAt(r) - 1), op |-> "=", lit |-> SubSeq(r, EqAt(r) + 1, Len(r))]
          ELSE [c |-> r, op |-> "", lit |-> <<>>]

ExprOk(cols, e) ==
  /\ Len(e.c) = 1
  /\ e.c[1] \in Range(cols)
  /\ e.op = "=" => IsLiteral(e.lit)

ExprVal(cols, row, e) ==
  LET v == row[ColIdx(cols, e.c[1])]
  IN IF e.op = "" THEN v
     ELSE IF e.op = "is" THEN Bool(v = Null)
     ELSE IF v = Null \/ e.lit = <<"null">> THEN Null
     ELSE Bool(v.s = sql_literal(e.lit).s)

\* the text of a WHERE fragment runs into a following LIKE
Glued(w) == ~w.sp /\ w.vals[1][Len(w.vals[1])] # "'"

\* the condition that the fragments from position k on state: none, WHERE,
\* or WHERE and LIKE
CondErr(cols, s, k) ==
  /\ Len(s) >= k
  /\ \/ ~ExprOk(cols, WhereExpr(s[k]))
     \/ Len(s) > k /\ Glued(s[k])

CondHolds(cols, row, s, k) ==
  IF Len(s) < k THEN TRUE
  ELSE LET v == ExprVal(cols, row, WhereExpr(s[k]))
       IN IF Len(s) > k THEN v # Null /\ like(sql_literal(s[k + 1].vals[1]).s, v.s)
          ELSE Truthy(v)

Tags(s) == [n \in 1..Len(s) |-> s[n].tag]

TailOk(s, k) ==
  \/ Len(s) = k - 1
  \/ Len(s) = k /\ s[k].tag = "WHERE"
  \/ Len(s) = k + 1 /\ s[k].tag = "WHERE" /\ s[k + 1].tag = "LIKE"

Done(err, rows, tables) == [err |-> err, rows |-> rows, tables |-> tables, cap |-> FALSE]

Operational(tables) == Done("OperationalError", <<>>, tables)
Integrity(tables) == Done("IntegrityError", <<>>, tables)

SelectCols(tb, txt) ==
  IF remove_spaces(txt) = <<"*">> THEN tb.cols ELSE string_to_list(txt)

ExecSelect(tables, s) ==
  LET tb == tables[s[2].tbl]
      names == string_to_list(s[1].txt)
  IN IF ~tb.is THEN Operational(tables)
     ELSE IF /\ remove_spaces(s[1].txt) # <<"*">>
             /\ \E n \in 1..Len(names) : names[n] \notin Range(tb.cols)
     THEN Operational(tables)
     ELSE IF CondErr(tb.cols, s, 3) THEN Operational(tables)
     ELSE LET hit(row) == CondHolds(tb.cols, row, s, 3)
              sel == SelectCols(tb, s[1].txt)
              kept == SelectSeq(tb.rows, hit)
          IN Done("", [n \in 1..Len(kept) |->
                         [m \in 1..Len(sel) |-> kept[n][ColIdx(tb.cols, sel[m])]]], tables)

Ids(tb) == {number(tb.rows[n][ColIdx(tb.cols, "i")].s) : n \in 1..Len(tb.rows)}

MaxOf(S) == IF S = {} THEN 0 ELSE CHOOSE x \in S : \A y \in S : y <= x

\* the value of column c in a new row built from keys and literals
Given(keys, vals, c) ==
  IF c \in Range(keys) THEN sql_literal(vals[ColIdx(keys, c)]) ELSE Null

ExecInsert(tables, s) ==
  LET tb == tables[s[1].tbl]
      keys == s[2].keys
      vals == s[2].vals
      haspk == "i" \in Range(tb.cols)
      pk == Given(keys, vals, "i")
      newid == IF pk = Null THEN MaxOf(Ids(tb)) + 1 ELSE number(pk.s)
      row == [n \in 1..Len(tb.cols) |->
                IF tb.cols[n] = "i" THEN [ty |-> "int", s |-> numeral(newid)]
                ELSE Given(keys, vals, tb.cols[n])]
  IN IF ~tb.is \/ keys = <<>> \/ ~(Range(keys) \subseteq Range(tb.cols)) THEN Operational(tables)
     ELSE IF haspk /\ pk # Null /\ ~IsNumeral(pk.s) THEN Integrity(tables)
     ELSE IF haspk /\ pk # Null /\ number(pk.s) \in Ids(tb) THEN Integrity(tables)
     ELSE [err |-> "", rows |-> <<>>,
           tables |-> [tables EXCEPT ![s[1].tbl].rows = Append(tb.rows, row)],
           cap |-> IF haspk THEN newid > MaxId ELSE Len(tb.rows) >= MaxId]

\* an UPDATE that sets the columns other than the key in every row
ExecUpdate_every_row(tables, s) ==
  LET tb == tables[s[1].tbl]
      new(row) == [n \in 1..Len(tb.cols) |->
                     IF tb.cols[n] \in Range(s[2].keys) \ {"i"}
                     THEN Given(s[2].keys, s[2].vals, tb.cols[n]) ELSE row[n]]
  IN IF ~tb.is THEN Operational(tables)
     ELSE [err |-> "", rows |-> <<>>,
           tables |-> [tables EXCEPT ![s[1].tbl].rows = [n \in 1..Len(tb.rows) |-> new(tb.rows[n])]],
           cap |-> FALSE]

ExecUpdate(tables, s) ==
  LET tb == tables[s[1].tbl]
      keys == s[2].keys
      vals == s[2].vals
      hit(row) == CondHolds(tb.cols, row, s, 3)
      new(row) == [n \in 1..Len(tb.cols) |->
                     IF tb.cols[n] \in Range(keys) THEN Given(keys, vals, tb.cols[n]) ELSE row[n]]
      rows == [n \in 1..Len(tb.rows) |-> IF hit(tb.rows[n]) THEN new(tb.rows[n]) ELSE tb.rows[n]]
      p == IF "i" \in Range(tb.cols) THEN ColIdx(tb.cols, "i") ELSE 0
  IN IF ~tb.is \/ keys = <<>> \/ ~(Range(keys) \subseteq Range(tb.cols)) THEN Operational(tables)
     ELSE IF CondErr(tb.cols, s, 3) THEN Operational(tables)
     ELSE IF p > 0 /\ \E n \in 1..Len(rows) : ~IsNumeral(rows[n][p].s) THEN Integrity(tables)
     ELSE IF p > 0 /\ \E n, m \in 1..Len(rows) : n # m /\ rows[n][p] = rows[m][p] THEN Integrity(tables)
     ELSE [err |-> "", rows |-> <<>>,
           tables |-> [tables EXCEPT ![s[1].tbl].rows = rows],
           cap |-> p > 0 /\ \E n \in 1..Len(rows) : number(rows[n][p].s) > MaxId]

\* a DELETE that drops its condition and empties the table
ExecDelete_every_row(tables, s) ==
  IF ~tables[s[1].tbl].is THEN Operational(tables)
  ELSE Done("", <<>>, [tables EXCEPT ![s[1].tbl].rows = <<>>])

ExecDelete(tables, s) ==
  LET tb == tables[s[1].tbl]
      keep(row) == ~CondHolds(tb.cols, row, s, 2)
  IN IF ~tb.is THEN Operational(tables)
     ELSE IF CondErr(tb.cols, s, 2) THEN Operational(tables)
     ELSE Done("", <<>>, [tables EXCEPT ![s[1].tbl].rows = SelectSeq(tb.rows, keep)])

\* cursor.execute(sql) on the tables of one database, then cursor.fetchall()
execute(tables, s) ==
  IF s = <<>> THEN Done("", <<>>, tables)
  ELSE IF Len(s) >= 2 /\ SubSeq(Tags(s), 1, 2) = <<"SELECT", "FROM">> /\ TailOk(s, 3)
  THEN ExecSelect(tables, s)
  ELSE IF Tags(s) = <<"INSERT_INTO", "VALUES">> THEN ExecInsert(tables, s)
  ELSE IF Len(s) >= 2 /\ SubSeq(Tags(s), 1, 2) = <<"UPDATE", "SET">> /\ TailOk(s, 3)
  THEN ExecUpdate(tables, s)
  ELSE IF Tags(s)[1] = "DELETE_FROM" /\ TailOk(s, 2) THEN ExecDelete(tables, s)
  ELSE Operational(tables)

\* -------------------------------------------------------------------- run
RECURSIVE dedupe(_)
dedupe(l) ==
  IF l = <<>> THEN <<>>
  ELSE LET d == dedupe(SubSeq(l, 1, Len(l) - 1))
       IN IF l[Len(l)] \in Range(d) THEN d ELSE Append(d, l[Len(l)])

LastIdx(l, x) == CHOOSE n \in 1..Len(l) : l[n] = x /\ \A m \in (n + 1)..Len(l) : l[m] # x

\* every key takes the first value of the row
DatabaseEntry_first_value(raw_entry, l, table_name) ==
  [tbl |-> table_name, keys |-> dedupe(l), vals |-> [n \in 1..Len(dedupe(l)) |-> raw_entry[1]]]

\* DatabaseEntry(entry, table_name) of utils.raw_table_to_table: the dict that
\* the loop over enumerate(fields) fills, tagged with the table
DatabaseEntry(raw_entry, l, table_name) ==
  [tbl |-> table_name, keys |-> dedupe(l),
   vals |-> [n \in 1..Len(dedupe(l)) |-> raw_entry[LastIdx(l, dedupe(l)[n])]]]

\* the generator yields nothing and ends with None when there is no row
raw_table_to_table_none(raw_table, f, table_name) ==
  IF Len(raw_table) = 0 THEN Val("None", <<>>, "")
  ELSE Val("table", [n \in 1..Len(raw_table) |-> DatabaseEntry(raw_table[n], f.l, table_name)], "")

\* utils.raw_table_to_table, consumed to its end. utils does not import
\* DatabaseError, so raising it is a NameError.
raw_table_to_table(raw_table, f, table_name) ==
  IF Len(raw_table) = 0 THEN Val("table", <<>>, "")
  ELSE IF f.k = "None" THEN Val("table", <<>>, "TypeError")
  ELSE LET l == IF f.k = "*" THEN <<"*">> ELSE f.l
       IN IF Len(raw_table[1]) # Len(l) THEN Val("table", <<>>, "NameError")
          ELSE IF \E n \in 1..Len(raw_table) : Len(raw_table[n]) < Len(l)
          THEN Val("table", <<>>, "IndexError")
          ELSE Val("table",
                   [n \in 1..Len(raw_table) |-> DatabaseEntry(raw_table[n], l, table_name)], "")

\* the exception classes that the try of Query.run catches
run_catches == {"OperationalError"}

\* the exception that Query.run raises when it has no database
run_no_database == "QueryError"

RunRet(db, raw, err) == [Ret("run", err, TRUE) EXCEPT !.arg = db, !.raw = raw]

\* a run that refuses every statement and hands nothing to the executor
run_refuses(db, raw) ==
  /\ UNCHANGED <<dbs, q_db, sql, history, fields, table, col, aux>>
  /\ ret' = RunRet(db, raw, run_no_database)

\* Query.run
run(db, raw) ==
  LET d == IF db # None THEN db ELSE q_db
  IN /\ UNCHANGED <<q_db, sql, history, table, col, aux>>
     /\ IF d = None
        THEN /\ ret' = RunRet(db, raw, run_no_database)
             /\ UNCHANGED <<dbs, fields>>
        ELSE LET r == execute(dbs[d], sql)
             IN /\ ~r.cap
                /\ IF r.err # ""
                   THEN /\ ret' = [RunRet(db, raw, IF r.err \in run_catches THEN "DatabaseError"
                                                   ELSE r.err)
                                     EXCEPT !.on = d, !.engine = r.err,
                                            !.text = IF r.err \in run_catches THEN sql ELSE <<>>]
                        /\ UNCHANGED <<dbs, fields>>
                   ELSE /\ dbs' = [dbs EXCEPT ![d] = r.tables]
                        /\ IF raw
                           THEN /\ ret' = [RunRet(db, raw, "") EXCEPT
                                             !.on = d, !.fetched = r.rows,
                                             !.val = Val("raw", <<>>, "")]
                                /\ fields' = fields
                           ELSE IF fields = FieldsStar /\ ~(table \in TableNames /\ r.tables[table].is)
                           THEN \* db.get_column_names raises
                                /\ ret' = [RunRet(db, raw, "DatabaseError") EXCEPT
                                             !.on = d, !.fetched = r.rows]
                                /\ fields' = fields
                           ELSE /\ fields' = IF fields = FieldsStar
                                             THEN FieldsList(r.tables[table].cols)
                                             ELSE fields
                                /\ ret' = [RunRet(db, raw, "") EXCEPT
                                             !.on = d, !.fetched = r.rows,
                                             !.val = raw_table_to_table(r.rows, fields', table)]

\* ------------------------------------------------------- schema changes
Remove(l, n) == SubSeq(l, 1, n - 1) \o SubSeq(l, n + 1, Len(l))

Schema(op, err) == /\ ret' = Ret(op, err, TRUE)
                   /\ UNCHANGED dbs

\* Database.add_column, of a TEXT column
add_column(d, table_name, c) ==
  /\ UNCHANGED <<q_db, sql, history, fields, table, col, aux>>
  /\ IF ~is_table(d, table_name) THEN Schema("add_column", "DatabaseError")
     ELSE IF c \in Range(dbs[d][table_name].cols) THEN Schema("add_column", "OperationalError")
     ELSE /\ dbs' = [dbs EXCEPT ![d][table_name] =
                       Table(Append(@.cols, c), [n \in 1..Len(@.rows) |-> Append(@.rows[n], Null)])]
          /\ ret' = Ret("add_column", "", TRUE)

\* Database.rename_column
rename_column(d, table_name, current_column_name, new_column_name) ==
  /\ UNCHANGED <<q_db, sql, history, fields, table, col, aux>>
  /\ IF ~is_table(d, table_name) THEN Schema("rename_column", "DatabaseError")
     ELSE IF \/ current_column_name \notin Range(dbs[d][table_name].cols)
             \/ new_column_name \in Range(dbs[d][table_name].cols)
     THEN Schema("rename_column", "OperationalError")
     ELSE /\ dbs' = [dbs EXCEPT ![d][table_name].cols =
                       [n \in 1..Len(@) |-> IF @[n] = current_column_name
                                            THEN new_column_name ELSE @[n]]]
          /\ ret' = Ret("rename_column", "", TRUE)

\* Database.delete_column
delete_column(d, table_name, c) ==
  /\ UNCHANGED <<q_db, sql, history, fields, table, col, aux>>
  /\ IF ~is_table(d, table_name) THEN Schema("delete_column", "DatabaseError")
     ELSE IF c \notin Range(dbs[d][table_name].cols) \/ c = "i"
     THEN Schema("delete_column", "OperationalError")
     ELSE LET p == ColIdx(dbs[d][table_name].cols, c)
          IN /\ dbs' = [dbs EXCEPT ![d][table_name] =
                          Table(Remove(@.cols, p), [n \in 1..Len(@.rows) |-> Remove(@.rows[n], p)])]
                /\ ret' = Ret("delete_column", "", TRUE)

\* ------------------------------------------------------------ the facade
\* Database.get_table_id_field without do_error: the name of the primary
\* key column, None when the table has none or is no table
get_table_id_field(d, table_name) ==
  IF table_name \in TableNames /\ "i" \in Range(dbs[d][table_name].cols) THEN "i" ELSE None

\* the statement "SELECT * FROM <name>"
SelectAll(name) ==
  <<Frag("SELECT", None, <<"*">>, <<>>, <<>>, TRUE), Frag("FROM", name, <<>>, <<>>, <<>>, TRUE)>>

\* Database.get_table_raw without get_only
get_table_raw(d, name) == execute(dbs[d], SelectAll(name))

\* Database.get_table without get_only, consumed to its end
get_table(d, name) ==
  LET r == get_table_raw(d, name)
  IN IF r.err # "" THEN Val("None", <<>>, r.err)
     ELSE IF ~get_column_names(d, name).ok THEN Val("None", <<>>, "DatabaseError")
     ELSE raw_table_to_table(r.rows, FieldsList(get_column_names(d, name).names), name)

\* dict.setdefault: the value of an existing key is kept
SetItem_only_new(e, k, v) ==
  IF k \in Range(e.keys) THEN e
  ELSE [e EXCEPT !.keys = Append(@, k), !.vals = Append(@, v)]

\* dict.__setitem__: an existing key keeps its place, a new key is appended
SetItem(e, k, v) ==
  IF k \in Range(e.keys) THEN [e EXCEPT !.vals[ColIdx(e.keys, k)] = v]
  ELSE [e EXCEPT !.keys = Append(@, k), !.vals = Append(@, v)]

\* a fill_null that leaves the entry as it was given
fill_null_nothing(d, entry) == [err |-> "", entry |-> entry]

\* Database.fill_null: [err, entry]; list.remove of a key that is no column
\* is the ValueError
fill_null(d, entry) ==
  LET t_fields == get_column_names(d, entry.tbl).names
      unset(c) == c \notin Range(entry.keys)
      left == SelectSeq(t_fields, unset)
  IN IF ~(Range(entry.keys) \subseteq Range(t_fields)) THEN [err |-> "ValueError", entry |-> entry]
     ELSE [err |-> "",
           entry |-> Entry(entry.tbl, entry.keys \o left, entry.vals \o [n \in 1..Len(left) |-> Null])]

\* DatabaseEntry.from_raw_entry: [err, recs]
from_raw_entry(raw_entry, table_fields, table_name) ==
  IF Len(raw_entry) # Len(table_fields) THEN Val("None", <<>>, "DatabaseError")
  ELSE Val("entry", <<DatabaseEntry(raw_entry, table_fields, table_name)>>, "")

\* a lookup that drops its condition and takes the first row of the table
get_entry_by_id_first_row(d, table_name, ID) ==
  LET answer == execute(dbs[d], SelectAll(table_name))
  IN IF get_table_id_field(d, table_name) = None \/ answer.err # "" \/ Len(answer.rows) = 0
     THEN Val("None", <<>>, "DatabaseError")
     ELSE from_raw_entry(answer.rows[1], get_column_names(d, table_name).names, table_name)

\* Database.get_entry_by_id: the value returned, or the exception raised
get_entry_by_id(d, table_name, ID) ==
  LET id_field == get_table_id_field(d, table_name)
      stmt == SelectAll(table_name) \o
              <<Frag("WHERE", None, <<id_field, " ", "=", " ">> \o ID.s, <<>>, <<>>, TRUE)>>
      answer == execute(dbs[d], stmt)
  IN IF id_field = None THEN Val("None", <<>>, "DatabaseError")
     ELSE IF answer.err # "" THEN Val("None", <<>>, answer.err)
     ELSE IF Len(answer.rows) # 1 THEN Val("None", <<>>, "DatabaseError")
     ELSE from_raw_entry(answer.rows[1], get_column_names(d, table_name).names, table_name)

\* a call of Database.get_entry_by_id
GetEntry(d, table_name, ID) ==
  /\ UNCHANGED <<dbs, q_db, sql, history, fields, table, col, aux>>
  /\ ret' = [Ret("get_entry_by_id", get_entry_by_id(d, table_name, ID).err, TRUE) EXCEPT
               !.on = d, !.name = table_name, !.data = Entry(None, <<>>, <<ID>>),
               !.val = get_entry_by_id(d, table_name, ID)]

\* "SELECT last_insert_rowid()" after a row was appended to tb: the key of
\* the row, or its place in a table without key (no row of such a table is
\* ever deleted here)
last_insert_rowid(tb) ==
  IF "i" \in Range(tb.cols) THEN tb.rows[Len(tb.rows)][ColIdx(tb.cols, "i")]
  ELSE [ty |-> "int", s |-> numeral(Len(tb.rows))]

\* the exception that add_entry raises for a table that does not exist: its
\* message reads self.table, which a Database does not have
add_entry_no_table == "AttributeError"

\* Database.add_entry; a plain dict is an entry tagged None
add_entry(d, entry, table_name, fill) ==
  LET Out(err, e) == [Ret("add_entry", err, TRUE) EXCEPT
                        !.on = d, !.data = entry, !.name = table_name, !.fill = fill, !.entry = e]
      e0 == IF entry.tbl = None THEN Entry(table_name, entry.keys, entry.vals) ELSE entry
      id_field == get_table_id_field(d, e0.tbl)
      e1 == IF id_field # None THEN SetItem(e0, id_field, Null) ELSE e0
      e2 == IF fill THEN fill_null(d, e1).entry ELSE e1
      stmt == <<Frag("INSERT_INTO", e2.tbl, <<>>, <<>>, <<>>, TRUE),
                Frag("VALUES", None, <<>>, e2.keys, dict_to_sql(e2).vals, TRUE)>>
      r == execute(dbs[d], stmt)
  IN /\ UNCHANGED <<q_db, sql, history, fields, table, col, aux>>
     /\ IF entry.tbl = None /\ table_name = None
        THEN ret' = Out("DatabaseError", entry) /\ dbs' = dbs
        ELSE IF ~is_table(d, e0.tbl)
        THEN ret' = Out(add_entry_no_table, e0) /\ dbs' = dbs
        ELSE IF fill /\ fill_null(d, e1).err # ""
        THEN ret' = Out(fill_null(d, e1).err, e1) /\ dbs' = dbs
        ELSE IF Range(e2.keys) # Range(get_column_names(d, e0.tbl).names)
        THEN ret' = Out("DatabaseError", e2) /\ dbs' = dbs
        ELSE IF ~dict_to_sql(e2).ok
        THEN ret' = Out("TypeError", e2) /\ dbs' = dbs
        ELSE /\ ~r.cap
             /\ IF r.err # ""
                THEN /\ ret' = Out(IF r.err \in run_catches THEN "DatabaseError" ELSE r.err, e2)
                     /\ dbs' = dbs
                ELSE /\ dbs' = [dbs EXCEPT ![d] = r.tables]
                     /\ ret' = IF get_table_id_field(d, table_name) = None
                               THEN Out("", e2)
                               ELSE [Out("", e2) EXCEPT
                                       !.fetched = <<<<last_insert_rowid(r.tables[e2.tbl])>>>>,
                                       !.val = Val("id", <<>>, "")]

\* dict.__getitem__ of a key that the mapping holds
GetItem(e, k) == e.vals[ColIdx(e.keys, k)]

\* the outcome of a Database method that builds stmt and runs it: text is the
\* statement that was handed to the engine, empty when none was
Facade(op, d, err, stmt) == [Ret(op, err, TRUE) EXCEPT !.on = d, !.text = stmt]

\* a failure of the engine takes database d back to its last commit
RunStmt_rolls_back(out, d, stmt) ==
  LET r == execute(dbs[d], stmt)
  IN /\ ~r.cap
     /\ IF r.err # ""
        THEN /\ ret' = [out EXCEPT !.err = IF r.err \in run_catches THEN "DatabaseError" ELSE r.err,
                                   !.engine = r.err, !.text = stmt]
             /\ dbs' = [dbs EXCEPT ![d] = file[d]]
        ELSE /\ ret' = [out EXCEPT !.text = stmt]
             /\ dbs' = [dbs EXCEPT ![d] = r.tables]

\* the end of update_entry, delete_entry and delete_entry_by_id: Query.run of
\* stmt on database d, whose result is dropped
RunStmt(out, d, stmt) ==
  LET r == execute(dbs[d], stmt)
  IN /\ ~r.cap
     /\ IF r.err # ""
        THEN /\ ret' = [out EXCEPT !.err = IF r.err \in run_catches THEN "DatabaseError" ELSE r.err,
                                   !.engine = r.err, !.text = stmt]
             /\ dbs' = dbs
        ELSE /\ ret' = [out EXCEPT !.text = stmt]
             /\ dbs' = [dbs EXCEPT ![d] = r.tables]

\* Database.update_entry; a plain dict is an entry tagged None
update_entry(d, entry, table_name, part, fill) ==
  LET Out(err, e) == [Facade("update_entry", d, err, <<>>) EXCEPT
                        !.data = entry, !.name = table_name, !.fill = fill, !.part = part,
                        !.entry = e]
      e0 == IF entry.tbl = None THEN Entry(table_name, entry.keys, entry.vals) ELSE entry
      id_field == get_table_id_field(d, e0.tbl)
      e1 == IF fill THEN fill_null(d, e0).entry ELSE e0
      table_fields == get_column_names(d, e0.tbl).names
      w == WHERE_fragment(<<id_field>>, GetItem(e1, id_field))
      stmt == <<Frag("UPDATE", e1.tbl, <<>>, <<>>, <<>>, TRUE),
                Frag("SET", None, <<>>, e1.keys, dict_to_sql(e1).vals, TRUE),
                w.frag>>
  IN /\ UNCHANGED <<q_db, sql, history, fields, table, col, aux>>
     /\ IF entry.tbl = None /\ table_name = None
        THEN ret' = Out("DatabaseError", entry) /\ dbs' = dbs
        ELSE IF ~is_table(d, e0.tbl)
        THEN ret' = Out("DatabaseError", e0) /\ dbs' = dbs
        ELSE IF fill /\ fill_null(d, e0).err # ""
        THEN ret' = Out(fill_null(d, e0).err, e0) /\ dbs' = dbs
        ELSE IF /\ Range(table_fields) # Range(e1.keys)
                /\ ~(part /\ Range(e1.keys) \subseteq Range(table_fields))
        THEN ret' = Out("DatabaseError", e1) /\ dbs' = dbs
        ELSE IF ~dict_to_sql(e1).ok
        THEN ret' = Out("TypeError", e1) /\ dbs' = dbs
        ELSE IF id_field \notin Range(e1.keys)
        THEN ret' = Out("KeyError", e1) /\ dbs' = dbs
        ELSE IF ~w.ok
        THEN ret' = Out("TypeError", e1) /\ dbs' = dbs
        ELSE RunStmt(Out("", e1), d, stmt)

\* Database.delete_entry; a plain dict, an entry tagged None, has no table
\* attribute
delete_entry(d, entry) ==
  LET Out(err) == [Facade("delete_entry", d, err, <<>>) EXCEPT !.data = entry]
      id_field == get_table_id_field(d, entry.tbl)
      w == WHERE_fragment(<<id_field>>, GetItem(entry, id_field))
      stmt == <<Frag("DELETE_FROM", entry.tbl, <<>>, <<>>, <<>>, TRUE), w.frag>>
  IN /\ UNCHANGED <<q_db, sql, history, fields, table, col, aux>>
     /\ IF entry.tbl = None
        THEN ret' = Out("AttributeError") /\ dbs' = dbs
        ELSE IF entry.tbl \notin get_table_names(d)
        THEN ret' = Out("QueryError") /\ dbs' = dbs
        ELSE IF id_field \notin Range(entry.keys)
        THEN ret' = Out("KeyError") /\ dbs' = dbs
        ELSE IF ~w.ok
        THEN ret' = Out("TypeError") /\ dbs' = dbs
        ELSE RunStmt(Out(""), d, stmt)

\* Database.delete_entry_by_id; the text of a missing key field is "None"
delete_entry_by_id(d, table_name, id) ==
  LET Out(err) == [Facade("delete_entry_by_id", d, err, <<>>) EXCEPT
                     !.name = table_name, !.data = Entry(None, <<>>, <<id>>)]
      id_field == get_table_id_field(d, table_name)
      w == WHERE_fragment(<<id_field>>, id)
      stmt == <<Frag("DELETE_FROM", table_name, <<>>, <<>>, <<>>, TRUE), w.frag>>
  IN /\ UNCHANGED <<q_db, sql, history, fields, table, col, aux>>
     /\ IF table_name \notin get_table_names(d)
        THEN ret' = Out("QueryError") /\ dbs' = dbs
        ELSE IF id = NoValue /\ id_field = None
        THEN \* None.find
             ret' = Out("AttributeError") /\ dbs' = dbs
        ELSE IF ~w.ok
        THEN ret' = Out("TypeError") /\ dbs' = dbs
        ELSE RunStmt(Out(""), d, stmt)

\* a call of utils.value_to_sql_value
Encode(value) ==
  /\ UNCHANGED <<dbs, q_db, sql, history, fields, table, col, aux>>
  /\ ret' = [RetData("value_to_sql_value",
                      IF value_to_sql_value(value).ok THEN "" ELSE "TypeError", <<>>, <<value>>)
               EXCEPT !.val = Val("text", <<value_to_sql_value(value).txt>>,
                                  IF value_to_sql_value(value).ok THEN "" ELSE "TypeError")]

\* a call of DatabaseEntry.from_raw_entry with a list of fields
Decode(raw_entry, table_fields, table_name) ==
  /\ UNCHANGED <<dbs, q_db, sql, history, fields, table, col, aux>>
  /\ ret' = [RetData("from_raw_entry", from_raw_entry(raw_entry, table_fields, table_name).err,
                      table_fields, <<>>)
               EXCEPT !.name = table_name, !.fetched = <<raw_entry>>,
                      !.val = from_raw_entry(raw_entry, table_fields, table_name)]

\* a call of utils.raw_table_to_table whose generator is consumed
DecodeMany(raw_table, l, table_name) ==
  /\ UNCHANGED <<dbs, q_db, sql, history, fields, table, col, aux>>
  /\ ret' = [RetData("raw_table_to_table",
                      raw_table_to_table(raw_table, FieldsList(l), table_name).err, l, <<>>)
               EXCEPT !.name = table_name, !.fetched = raw_table,
                      !.val = raw_table_to_table(raw_table, FieldsList(l), table_name)]

\* Database.create_table with the columns cols, "i" being the INTEGER PRIMARY
\* KEY; the engine's error is not caught
create_table(d, name, cols) ==
  /\ UNCHANGED <<q_db, sql, history, fields, table, col, aux>>
  /\ IF is_table(d, name)
     THEN ret' = [RetName("create_table", "OperationalError", name) EXCEPT !.on = d] /\ dbs' = dbs
     ELSE /\ dbs' = [dbs EXCEPT ![d][name] = Table(cols, <<>>)]
          /\ ret' = [RetName("create_table", "", name) EXCEPT !.on = d]

\* Database.rename_table
rename_table(d, current_name, new_name) ==
  /\ UNCHANGED <<q_db, sql, history, fields, table, col, aux>>
  /\ IF ~is_table(d, current_name) \/ is_table(d, new_name)
     THEN ret' = [RetName("rename_table", "OperationalError", current_name) EXCEPT !.on = d]
          /\ dbs' = dbs
     ELSE /\ dbs' = [dbs EXCEPT ![d][new_name] = dbs[d][current_name], ![d][current_name] = NoTable]
          /\ ret' = [RetName("rename_table", "", current_name) EXCEPT !.on = d]

\* Database.delete_table
delete_table(d, table_name) ==
  /\ UNCHANGED <<q_db, sql, history, fields, table, col, aux>>
  /\ IF ~is_table(d, table_name)
     THEN ret' = [RetName("delete_table", "OperationalError", table_name) EXCEPT !.on = d]
          /\ dbs' = dbs
     ELSE /\ dbs' = [dbs EXCEPT ![d][table_name] = NoTable]
          /\ ret' = [RetName("delete_table", "", table_name) EXCEPT !.on = d]

\* Database.get_table_cols: the names of the columns that PRAGMA table_info
\* lists, none for a table that does not exist
get_table_cols(d, name) == IF dbs[d][name].is THEN dbs[d][name].cols ELSE <<>>

\* the outcome of a catalog query on the table name of database d
Catalog(op, d, name, val) == [RetName(op, val.err, name) EXCEPT !.on = d, !.val = val]

\* a call of Database.get_table_names
GetTableNames(d) ==
  /\ UNCHANGED <<dbs, q_db, sql, history, fields, table, col, aux>>
  /\ ret' = Catalog("get_table_names", d, None, Val("names", <<get_table_names(d)>>, ""))

\* a call of Database.is_table
IsTable(d, table_name) ==
  /\ UNCHANGED <<dbs, q_db, sql, history, fields, table, col, aux>>
  /\ ret' = Catalog("is_table", d, table_name, Val("bool", <<is_table(d, table_name)>>, ""))

\* a call of Database.get_table_cols
GetTableCols(d, name) ==
  /\ UNCHANGED <<dbs, q_db, sql, history, fields, table, col, aux>>
  /\ ret' = Catalog("get_table_cols", d, name, Val("cols", <<get_table_cols(d, name)>>, ""))

\* a call of Database.get_column_names
GetColumnNames(d, table_name) ==
  /\ UNCHANGED <<dbs, q_db, sql, history, fields, table, col, aux>>
  /\ ret' = Catalog("get_column_names", d, table_name,
                    IF get_column_names(d, table_name).ok
                    THEN Val("cols", <<get_column_names(d, table_name).names>>, "")
                    ELSE Val("None", <<>>, "DatabaseError"))

\* a call of Database.is_column
IsColumn(d, table_name, col_name) ==
  /\ UNCHANGED <<dbs, q_db, sql, history, fields, table, col, aux>>
  /\ ret' = [Catalog("is_column", d, table_name,
                     IF get_column_names(d, table_name).ok
                     THEN Val("bool", <<col_name \in Range(get_column_names(d, table_name).names)>>, "")
                     ELSE Val("None", <<>>, "DatabaseError"))
               EXCEPT !.data = Entry(None, <<col_name>>, <<>>)]

\* a connection: Database.connected, the foreign_keys pragma of the sqlite3
\* connection, and Database.path, a file or ":memory:"
Connection(connected, foreign_keys, path) ==
  [connected |-> connected, foreign_keys |-> foreign_keys, path |-> path]

\* Database.__init__: connected, with PRAGMA foreign_keys = ON executed
Opened(path) == Connection(TRUE, TRUE, path)

\* no lazy sequence is held
NoGen == [live |-> FALSE, raw_table |-> <<>>, fields |-> FieldsNone, table_name |-> None,
          at_call |-> NoVal]

\* Database.get_table_raw with a list get_only: the empty list selects
\* every column, a name that is no column of the table is the DatabaseError,
\* and the engine's own exception is not translated. The statement is
\* "SELECT <get_only joined by commas> FROM <name>".
get_table_raw_only(d, name, get_only) ==
  IF get_only = <<>> THEN get_table_raw(d, name)
  ELSE IF ~get_column_names(d, name).ok THEN Done("DatabaseError", <<>>, dbs[d])
  ELSE IF \E n \in 1..Len(get_only) : get_only[n] \notin Range(get_column_names(d, name).names)
  THEN Done("DatabaseError", <<>>, dbs[d])
  ELSE execute(dbs[d],
               <<Frag("SELECT", None, join(<<",">>, [n \in 1..Len(get_only) |-> <<get_only[n]>>]),
                      <<>>, <<>>, TRUE),
                 Frag("FROM", name, <<>>, <<>>, <<>>, TRUE)>>)

\* Database.get_table with a list get_only: the rows of get_table_raw are
\* decoded with all the column names of the table
get_table_only(d, name, get_only) ==
  LET raw_table == get_table_raw_only(d, name, get_only)
  IN IF raw_table.err # "" THEN Val("None", <<>>, "")
     ELSE raw_table_to_table(raw_table.rows, FieldsList(get_column_names(d, name).names), name)

\* a call of Database.get_table; val.err is the exception that the returned
\* generator raises when it is consumed
GetTable(d, name, get_only) ==
  /\ UNCHANGED <<dbs, q_db, sql, history, fields, table, col, aux>>
  /\ ret' = [Catalog("get_table", d, name, get_table_only(d, name, get_only)) EXCEPT
               !.err = get_table_raw_only(d, name, get_only).err,
               !.fetched = get_table_raw_only(d, name, get_only).rows,
               !.data = Entry(None, get_only, <<>>)]

\* -------------------------------------------------------- the connection
\* a database that holds no table
NoTables == [t \in TableNames |-> NoTable]

\* what a new connection to the path of database d reads: the tables of the
\* file, and an empty database for ":memory:"
Stored(d) == IF conn[d].path = ":memory:" THEN NoTables ELSE file[d]

\* the outcome of a call on database d
Life(op, d, err) == [Ret(op, err, TRUE) EXCEPT !.on = d]

\* a method called on a Database whose connection is closed
Closed(op, d) ==
  /\ ~conn[d].connected
  /\ ret' = Life(op, d, "ProgrammingError")
  /\ UNCHANGED <<dbs, q_db, sql, history, fields, table, col, aux>>

\* Database.save: conn.commit()
save(d) ==
  /\ UNCHANGED <<dbs, q_db, sql, history, fields, table, col, conn, gen>>
  /\ IF ~conn[d].connected
     THEN ret' = Life("save", d, "ProgrammingError") /\ file' = file
     ELSE ret' = Life("save", d, "") /\ file' = [file EXCEPT ![d] = dbs[d]]

\* a close that does not commit
close_without_commit(d) ==
  /\ UNCHANGED <<dbs, q_db, sql, history, fields, table, col, gen, file>>
  /\ IF ~conn[d].connected
     THEN ret' = Life("close", d, "ProgrammingError") /\ conn' = conn
     ELSE /\ ret' = Life("close", d, "")
          /\ conn' = [conn EXCEPT ![d].connected = FALSE]

\* Database.close: conn.commit(), conn.close(), connected = False. The
\* tables last read through the connection stay in dbs.
close(d) ==
  /\ UNCHANGED <<dbs, q_db, sql, history, fields, table, col, gen>>
  /\ IF ~conn[d].connected
     THEN ret' = Life("close", d, "ProgrammingError") /\ UNCHANGED <<conn, file>>
     ELSE /\ ret' = Life("close", d, "")
          /\ file' = [file EXCEPT ![d] = dbs[d]]
          /\ conn' = [conn EXCEPT ![d].connected = FALSE]

\* Database.reconnect after close: sqlite3.connect(self.path), a new cursor,
\* connected = True. The connection has the foreign_keys pragma that
\* sqlite3.connect returns it with, which is off.
reconnect(d) ==
  /\ ~conn[d].connected
  /\ UNCHANGED <<q_db, sql, history, fields, table, col, gen, file>>
  /\ conn' = [conn EXCEPT ![d] = Connection(TRUE, FALSE, @.path)]
  /\ dbs' = [dbs EXCEPT ![d] = Stored(d)]
  /\ ret' = Life("reconnect", d, "")

\* Database.__init__ on the path of a Database that was closed
Database(d) ==
  /\ ~conn[d].connected
  /\ UNCHANGED <<q_db, sql, history, fields, table, col, gen, file>>
  /\ conn' = [conn EXCEPT ![d] = Opened(@.path)]
  /\ dbs' = [dbs EXCEPT ![d] = Stored(d)]
  /\ ret' = Life("Database", d, "")

\* ------------------------------------------------------ the lazy sequence
\* The caller keeps the generator that the last call, of run without raw or
\* of get_table, returned: raw_table_to_table was called with the rows that
\* fetchall returned, the field list and the table name of that call, and
\* none of its body has run yet. at_call is what that call's rows decode to.
Hold ==
  /\ ret.op \in {"run", "get_table"} /\ ret.err = "" /\ ret.val.k = "table"
  /\ gen' = [live |-> TRUE,
             raw_table |-> ret.fetched,
             fields |-> IF ret.op = "run" THEN fields
                        ELSE FieldsList(get_column_names(ret.on, ret.name).names),
             table_name |-> IF ret.op = "run" THEN table ELSE ret.name,
             at_call |-> ret.val]
  /\ UNCHANGED <<dbs, q_db, sql, history, fields, table, col, ret, conn, file>>

\* a generator that reads its table again when it is consumed
Consume_reads_again ==
  /\ gen.live
  /\ ret' = [RetName("consume", "", gen.table_name) EXCEPT
               !.val = IF q_db # None /\ gen.table_name \in TableNames
                       THEN get_table(q_db, gen.table_name)
                       ELSE raw_table_to_table(gen.raw_table, gen.fields, gen.table_name)]
  /\ gen' = NoGen
  /\ UNCHANGED <<dbs, q_db, sql, history, fields, table, col, conn, file>>

\* the caller consumes the generator it holds to its end: the body of
\* raw_table_to_table runs over the rows and fields it was called with
Consume ==
  /\ gen.live
  /\ ret' = [RetName("consume", "", gen.table_name) EXCEPT
               !.val = raw_table_to_table(gen.raw_table, gen.fields, gen.table_name)]
  /\ gen' = NoGen
  /\ UNCHANGED <<dbs, q_db, sql, history, fields, table, col, conn, file>>

\* ------------------------------------------------------ the inputs drawn

Datas ==
  {[keys |-> <<"a">>, vals |-> <<StrV(<<"y">>)>>],
   [keys |-> <<"i", "a">>, vals |-> <<IntV("1"), StrV(<<"x">>)>>],
   [keys |-> <<"b">>, vals |-> <<Null>>],
   [keys |-> <<"a">>, vals |-> <<Obj>>]}

\* the columns a schema change adds, renames or deletes ("i" stays the key)
DdlCols == ColNames \ {"i"}

\* d1 holds the table t with one row; d2 is a new database without tables
Init ==
  /\ dbs = [d \in DbIds |->
              [t \in TableNames |->
                 IF d = "d1" /\ t = "t" THEN Table(<<"i", "a">>, <<<<IntV("1"), StrV(<<"x">>)>>>>)
                 ELSE NoTable]]
  /\ q_db \in DbIds \cup {None}
  /\ sql = <<>>
  /\ history = <<>>
  /\ fields = FieldsNone
  /\ table = None
  /\ col = <<>>
  /\ ret = Ret("Query", "", TRUE)
  /\ conn = [d \in DbIds |-> Opened("file")]
  /\ file = dbs
  /\ gen = NoGen

\* the builder: every sequence of clause calls on builders bound to d1, to d2
\* or to no database
Next ==
  \/ \E db \in DbIds \cup {None} : Query(db)
  \/ \E selection \in {[k |-> "str", s |-> <<"*">>], [k |-> "str", s |-> <<"i", ",", " ", "a">>],
                       [k |-> "list", s |-> <<"a">>], [k |-> "list", s |-> <<"b">>],
                       [k |-> "other", s |-> <<>>]} :
       SELECT(selection)
  \/ \E table_name \in TableNames : FROM(table_name)
  \/ \E a \in {<<<<"i">>, IntV("1")>>, <<<<"a">>, Omitted>>,
               <<<<"i", " ", "=", " ", "2">>, Omitted>>, <<<<"a">>, Null>>, <<<<"a">>, Obj>>,
               <<<<"a">>, StrV(<<>>)>>, <<<<"i">>, IntV("0")>>} :
       WHERE(a[1], a[2])
  \/ \E pattern \in {StrV(<<"x", "%">>), Obj} : LIKE(pattern)
  \/ \E table_name \in TableNames : UPDATE(table_name)
  \/ \E data \in Datas : SET(data)
  \/ \E table_name \in TableNames : INSERT_INTO(table_name)
  \/ \E data \in Datas : VALUES(data)
  \/ \E table_name \in TableNames : DELETE_FROM(table_name)

Spec == Init /\ [][Next]_vars

\* the builder, its runs and the schema changes of the databases; the
\* inputs are those of the statements that are sent to the engine
NextRun ==
  \/ \E db \in DbIds \cup {None} : Query(db)
  \/ \E selection \in {[k |-> "str", s |-> <<"*">>], [k |-> "list", s |-> <<"a">>]} : SELECT(selection)
  \/ \E table_name \in {"t"} : FROM(table_name)
  \/ \E a \in {<<<<"i">>, IntV("1")>>, <<<<"a">>, Omitted>>} : WHERE(a[1], a[2])
  \/ \E pattern \in {StrV(<<"x", "%">>)} : LIKE(pattern)
  \/ \E table_name \in {"t"} : UPDATE(table_name)
  \/ \E data \in {[keys |-> <<"i", "a">>, vals |-> <<IntV("1"), StrV(<<"x">>)>>]} : SET(data)
  \/ \E table_name \in {"t"} : INSERT_INTO(table_name)
  \/ \E data \in {[keys |-> <<"i", "a">>, vals |-> <<IntV("1"), StrV(<<"x">>)>>]} : VALUES(data)
  \/ \E table_name \in {"t"} : DELETE_FROM(table_name)
  \/ \E db \in DbIds \cup {None}, raw \in BOOLEAN : run(db, raw)
  \/ \E d \in DbIds, t \in {"t"}, c \in DdlCols : add_column(d, t, c)
  \/ \E d \in DbIds, t \in {"t"}, c, e \in DdlCols : rename_column(d, t, c, e)
  \/ \E d \in DbIds, t \in {"t"}, c \in DdlCols : delete_column(d, t, c)

SpecRun == Init /\ [][NextRun]_vars

\* ------------------------------------------------- the facade's inputs
\* d1 holds t, with the key i and one row, and n, without key and without
\* row; d2 is a new database without tables
EntryDbs ==
  [d \in DbIds |->
     [t \in TableNames |->
        IF d = "d1" /\ t = "t" THEN Table(<<"i", "a">>, <<<<IntV("1"), StrV(<<"x">>)>>>>)
        ELSE IF d = "d1" /\ t = "n" THEN Table(<<"a", "b">>, <<>>)
        ELSE NoTable]]

InitEntry ==
  /\ dbs = EntryDbs
  /\ q_db \in {"d1", None}
  /\ sql = <<>>
  /\ history = <<>>
  /\ fields = FieldsNone
  /\ table = None
  /\ col = <<>>
  /\ ret = Ret("Query", "", TRUE)
  /\ conn = [d \in DbIds |-> Opened("file")]
  /\ file = dbs
  /\ gen = NoGen

\* the facade: entries added, as plain dicts and as an entry tagged t, and
\* read back
NextEntry ==
  \/ \E d \in DbIds, entry \in {Entry(None, <<"a">>, <<StrV(<<"y">>)>>),
                                Entry(None, <<"i", "a">>, <<IntV("1"), StrV(<<"y">>)>>),
                                Entry(None, <<"i">>, <<Null>>),
                                Entry(None, <<"a", "b">>, <<StrV(<<"y">>), Null>>),
                                Entry("t", <<"a">>, <<StrV(<<"y">>)>>)},
        table_name \in TableNames \cup {None}, fill \in BOOLEAN :
       add_entry(d, entry, table_name, fill)
  \/ \E d \in DbIds, table_name \in TableNames, ID \in {IntV("1"), IntV("2"), IntV("9")} :
       GetEntry(d, table_name, ID)

SpecEntry == InitEntry /\ [][NextEntry]_vars

\* the entry that makes the selected table grow
GrowEntry == Entry(None, <<"a">>, <<StrV(<<"y">>)>>)

\* tables selected by a builder while they grow
NextSelect ==
  \/ \E db \in {"d1", None} : Query(db)
  \/ \E selection \in {[k |-> "str", s |-> <<"*">>], [k |-> "str", s |-> <<"a", ",", " ", "i">>],
                       [k |-> "list", s |-> <<"a">>]} : SELECT(selection)
  \/ \E table_name \in TableNames : FROM(table_name)
  \/ \E db \in {"d1", None}, raw \in BOOLEAN : run(db, raw)
  \/ add_entry("d1", GrowEntry, "t", FALSE)

SpecSelect == InitEntry /\ [][NextSelect]_vars

\* a keyed table t of three columns and two rows and a keyless table n in d1,
\* no table in d2
UpdateDbs ==
  [d \in DbIds |->
     [t \in TableNames |->
        IF d = "d1" /\ t = "t"
        THEN Table(<<"i", "a", "b">>, <<<<IntV("1"), StrV(<<"x">>), StrV(<<"p">>)>>,
                                       <<IntV("2"), StrV(<<"y">>), StrV(<<"q">>)>>>>)
        ELSE IF d = "d1" /\ t = "n"
        THEN Table(<<"a", "b">>, <<<<StrV(<<"x">>), StrV(<<"p">>)>>>>)
        ELSE NoTable]]

\* the mappings given to update_entry: with the key of a row and some or all
\* columns, without the key, with a key that is no column, with the key of
\* no row, and an entry tagged t
UpdateEntries ==
  {Entry(None, <<"i", "a">>, <<IntV("1"), StrV(<<"z">>)>>),
   Entry(None, <<"i", "a", "b">>, <<IntV("1"), StrV(<<"z">>), StrV(<<"w">>)>>),
   Entry(None, <<"a">>, <<StrV(<<"z">>)>>),
   Entry(None, <<"a", "b">>, <<StrV(<<"z">>), StrV(<<"w">>)>>),
   Entry(None, <<"i", "c">>, <<IntV("1"), StrV(<<"z">>)>>),
   Entry(None, <<"i", "a", "b">>, <<IntV("9"), StrV(<<"z">>), StrV(<<"w">>)>>),
   Entry("t", <<"i", "b">>, <<IntV("1"), StrV(<<"w">>)>>)}

\* the entries given to delete_entry: rows of t and n as get_table yields
\* them, an entry with the key of no row, one without key and a plain dict
DeleteEntries ==
  {Entry("t", <<"i", "a", "b">>, <<IntV("1"), StrV(<<"x">>), StrV(<<"p">>)>>),
   Entry("t", <<"i", "a", "b">>, <<IntV("9"), StrV(<<"x">>), StrV(<<"p">>)>>),
   Entry("t", <<"a">>, <<StrV(<<"x">>)>>),
   Entry("n", <<"a", "b">>, <<StrV(<<"x">>), StrV(<<"p">>)>>),
   Entry(None, <<"i">>, <<IntV("1")>>)}

DeleteIds == {IntV("1"), IntV("2"), IntV("9")}

InitUpdate ==
  /\ dbs = UpdateDbs
  /\ q_db = None
  /\ sql = <<>>
  /\ history = <<>>
  /\ fields = FieldsNone
  /\ table = None
  /\ col = <<>>
  /\ ret = Ret("Query", "", TRUE)
  /\ conn = [d \in DbIds |-> Opened("file")]
  /\ file = dbs
  /\ gen = NoGen

\* the facade: rows updated and deleted
NextUpdate ==
  \/ \E d \in DbIds, entry \in UpdateEntries, table_name \in TableNames \cup {None},
        part \in BOOLEAN, fill \in BOOLEAN :
       update_entry(d, entry, table_name, part, fill)
  \/ \E d \in DbIds, entry \in DeleteEntries : delete_entry(d, entry)
  \/ \E d \in DbIds, table_name \in TableNames, id \in DeleteIds :
       delete_entry_by_id(d, table_name, id)

SpecUpdate == InitUpdate /\ [][NextUpdate]_vars

\* rows inserted through add_entry and deleted through the builder and
\* through the facade; the entries given to delete_entry while t grows are
\* the first row of t, an entry with the key of a later row, and one with
\* the key of no row
NextDelete ==
  \/ Query("d1")
  \/ \E table_name \in TableNames : DELETE_FROM(table_name)
  \/ \E id \in DeleteIds : WHERE(<<"i">>, id)
  \/ run(None, FALSE)
  \/ add_entry("d1", GrowEntry, "t", FALSE)
  \/ \E entry \in {Entry("t", <<"i", "a">>, <<IntV("1"), StrV(<<"x">>)>>),
                   Entry("t", <<"i", "a">>, <<IntV("2"), StrV(<<"y">>)>>),
                   Entry("t", <<"i", "a">>, <<IntV("9"), StrV(<<"y">>)>>)} : delete_entry("d1", entry)
  \/ \E table_name \in TableNames, id \in DeleteIds : delete_entry_by_id("d1", table_name, id)

SpecDelete == InitEntry /\ [][NextDelete]_vars

\* the texts of at most n letters, each a plain letter or the single quote
RECURSIVE Texts(_)
Texts(n) ==
  IF n = 0 THEN {<<>>}
  ELSE Texts(n - 1) \cup {Append(t, c) : t \in Texts(n - 1), c \in {"x", "'"}}

\* the row of a given width: the numerals 1, 2, ...
RowOfWidth(w) == [n \in 1..w |-> [ty |-> "int", s |-> numeral(n)]]

\* the tables drawn: no row, one row, or two rows, each of a width up to
\* MaxWidth
RawTables ==
  {<<>>} \cup {<<RowOfWidth(w)>> : w \in 0..MaxWidth}
         \cup {<<RowOfWidth(v), RowOfWidth(w)>> : v, w \in 0..MaxWidth}

\* table t holds one row in d1 and is empty, with the same columns, in d2
CodecDbs(v) ==
  [d \in DbIds |->
     [t \in TableNames |->
        IF t # "t" THEN NoTable
        ELSE IF d = "d1" THEN Table(<<"i", "a">>, <<<<IntV("1"), v>>>>)
        ELSE Table(<<"i", "a">>, <<>>)]]

\* the value of the row of d1.t is one that a column without declared type
\* keeps as it is given: a text, null or a blob
InitCodec ==
  /\ \E v \in {StrV(<<"x">>), StrV(<<"'">>), StrV(<<"x", "'", "x">>), Null, BytesV(<<"x">>)} :
       dbs = CodecDbs(v)
  /\ q_db = None
  /\ sql = <<>>
  /\ history = <<>>
  /\ fields = FieldsNone
  /\ table = None
  /\ col = <<>>
  /\ ret = Ret("Query", "", TRUE)
  /\ conn = [d \in DbIds |-> Opened("file")]
  /\ file = dbs
  /\ gen = NoGen

\* values encoded, rows decoded (rows of any width, of one cell value
\* each), and the row of d1.t, read and decoded against the columns of t,
\* inserted into the empty table of d2
NextCodec ==
  \/ \E value \in ({StrV(t) : t \in Texts(MaxLen)} \cup
                   {Null, IntV("0"), IntV("7"), FloatV(<<"1", ".", "5">>), FloatV(<<"nan">>),
                    BoolV(TRUE), BoolV(FALSE), BytesV(<<"x">>), Obj,
                    ListV(<<>>), ListV(<<"a">>), ListV(<<"a", "b">>), MixedListV(<<"a", "1">>)}) :
       Encode(value)
  \/ \E raw_entry \in {[n \in 1..w |-> v] : w \in 0..MaxWidth,
                                              v \in {Null, StrV(<<"'">>), BytesV(<<"x">>)}},
        table_fields \in {<<"a">>, <<"a", "b">>} :
       Decode(raw_entry, table_fields, "t")
  \/ \E raw_table \in RawTables, l \in {<<"a">>, <<"a", "b">>} : DecodeMany(raw_table, l, "t")
  \/ Query("d2")
  \/ INSERT_INTO("t")
  \/ VALUES(from_raw_entry(dbs["d1"]["t"].rows[1],
                           get_column_names("d1", "t").names, "t").recs[1])
  \/ run(None, FALSE)

SpecCodec == InitCodec /\ [][NextCodec]_vars

\* tables and columns created, renamed and deleted in d1, and the catalog
\* queried in d1 and in d2, which has no table
NextCatalog ==
  \/ \E name \in TableNames, cols \in {<<"i", "a">>, <<"a", "b">>} :
       create_table("d1", name, cols)
  \/ \E current_name \in TableNames, new_name \in TableNames :
       rename_table("d1", current_name, new_name)
  \/ \E table_name \in TableNames : delete_table("d1", table_name)
  \/ \E table_name \in TableNames, c \in DdlCols : add_column("d1", table_name, c)
  \/ \E table_name \in TableNames, c \in DdlCols, n \in DdlCols :
       rename_column("d1", table_name, c, n)
  \/ \E table_name \in TableNames, c \in DdlCols : delete_column("d1", table_name, c)
  \/ \E d \in DbIds : GetTableNames(d)
  \/ \E d \in DbIds, table_name \in TableNames : IsTable(d, table_name)
  \/ \E d \in DbIds, name \in TableNames : GetTableCols(d, name)
  \/ \E d \in DbIds, table_name \in TableNames : GetColumnNames(d, table_name)
  \/ \E d \in DbIds, table_name \in TableNames, col_name \in ColNames :
       IsColumn(d, table_name, col_name)

SpecCatalog == InitUpdate /\ [][NextCatalog]_vars

\* tables read whole or by columns while rows go and columns come and go;
\* the lists given to get_table as get_only: none, one column, all columns
\* in the table's order and in another order, two columns, and a name that
\* is no column
NextTable ==
  \/ \E d \in DbIds, name \in TableNames,
        get_only \in {<<>>, <<"a">>, <<"i", "a", "b">>, <<"b", "a", "i">>, <<"a", "b">>,
                      <<"b", "a">>, <<"c">>} :
       GetTable(d, name, get_only)
  \/ \E entry \in DeleteEntries : delete_entry("d1", entry)
  \/ \E table_name \in TableNames, id \in DeleteIds : delete_entry_by_id("d1", table_name, id)
  \/ \E table_name \in TableNames, c \in DdlCols : delete_column("d1", table_name, c)
  \/ \E table_name \in TableNames, c \in DdlCols : add_column("d1", table_name, c)

SpecTable == InitUpdate /\ [][NextTable]_vars

\* d1 holds t with one row and is a Database on a file or
\* Database.in_memory() after t was created in it and the row added; d2
\* holds no table
InitLife ==
  /\ dbs = [d \in DbIds |-> [t \in TableNames |->
              IF d = "d1" /\ t = "t" THEN Table(<<"i", "a">>, <<<<IntV("1"), StrV(<<"x">>)>>>>)
              ELSE NoTable]]
  /\ q_db = None
  /\ sql = <<>>
  /\ history = <<>>
  /\ fields = FieldsNone
  /\ table = None
  /\ col = <<>>
  /\ ret = Ret("Query", "", TRUE)
  /\ \E path \in {"file", ":memory:"} :
       /\ conn = [d \in DbIds |-> IF d = "d1" THEN Opened(path) ELSE Opened("file")]
       /\ file = [d \in DbIds |-> IF d = "d1" /\ path = ":memory:" THEN NoTables ELSE dbs[d]]
  /\ gen = NoGen

\* rows written through the open connection, saved, and the connection
\* closed and opened again
NextLife ==
  \/ conn["d1"].connected /\ add_entry("d1", GrowEntry, "t", FALSE)
  \/ conn["d1"].connected /\ \E id \in {IntV("1"), IntV("2")} : delete_entry_by_id("d1", "t", id)
  \/ \E op \in {"add_entry", "delete_entry_by_id"} : Closed(op, "d1")
  \/ save("d1")
  \/ close("d1")
  \/ reconnect("d1")
  \/ Database("d1")

SpecLife == InitLife /\ [][NextLife]_vars

\* a table read through the builder or through get_table, and the sequence
\* kept while rows are added, updated and deleted and a column is added
NextSnap ==
  \/ Query("d1")
  \/ SELECT([k |-> "str", s |-> <<"*">>])
  \/ FROM("t")
  \/ run(None, FALSE)
  \/ GetTable("d1", "t", <<>>)
  \/ add_entry("d1", GrowEntry, "t", FALSE)
  \/ update_entry("d1", Entry(None, <<"i", "a">>, <<IntV("1"), StrV(<<"z">>)>>), "t", FALSE, FALSE)
  \/ \E id \in {IntV("1"), IntV("2")} : delete_entry_by_id("d1", "t", id)
  \/ add_column("d1", "t", "b")
  \/ Hold
  \/ Consume

SpecSnap == InitEntry /\ [][NextSnap]_vars

\* ------------------------------------------------------------- the claims
Clauses ==
  {"SELECT", "FROM", "WHERE", "LIKE", "UPDATE", "SET", "INSERT_INTO", "VALUES", "DELETE_FROM"}

Openers == {"SELECT", "UPDATE", "INSERT_INTO", "DELETE_FROM"}

\* the transition table of the specification: <<top of history, legal next>>
TransitionTable ==
  {<<None, "SELECT">>, <<None, "UPDATE">>, <<None, "INSERT_INTO">>, <<None, "DELETE_FROM">>,
   <<"SELECT", "FROM">>, <<"FROM", "WHERE">>, <<"WHERE", "LIKE">>, <<"UPDATE", "SET">>,
   <<"SET", "WHERE">>, <<"INSERT_INTO", "VALUES">>, <<"DELETE_FROM", "WHERE">>}

IsPrefix(p, q) == Len(p) <= Len(q) /\ SubSeq(q, 1, Len(p)) = p

\* C1: a clause call passes the order check if and only if the pair (top of
\* history before the call, clause) is in the transition table, and a call
\* that does not pass fails with QueryError.
C1_OrderCheckIsTransitionTable ==
  [][ret'.op \in Clauses =>
       /\ ret'.order <=> <<Top, ret'.op>> \in TransitionTable
       /\ ~ret'.order => ret'.err = "QueryError"]_vars

\* C1: WHERE was rejected on a builder whose last clause is SELECT
C1_Witness == ret.op = "WHERE" /\ ~ret.order /\ Top = "SELECT"

\* C2: a clause call that the order check rejects leaves sql, history, fields
\* and table as they were.
C2_RejectedCallChangesNothing ==
  [][(ret'.op \in Clauses /\ ~ret'.order) => UNCHANGED <<sql, history, fields, table>>]_vars

\* C2: FROM was rejected on a builder that holds a whole statement
C2_Witness == ret.op = "FROM" /\ ~ret.order /\ Len(sql) >= 2 /\ fields # FieldsNone

\* C3: the history is a path of the transition table from the empty state:
\* its first element is the only statement-opening clause in it, every
\* adjacent pair is a legal transition, and it is never longer than 4.
C3_HistoryIsPath ==
  /\ Len(history) <= 4
  /\ history # <<>> => <<None, history[1]>> \in TransitionTable
  /\ \A n \in 2..Len(history) :
       /\ <<history[n - 1], history[n]>> \in TransitionTable
       /\ history[n] \notin Openers

\* C3: a history of the greatest length, after a call that failed
C3_Witness == Len(history) = 4 /\ ret.err # ""

\* C4: history holds exactly the tags of the clauses that were applied: a
\* clause call that fails pushes no tag, and sql is one fragment per tag of
\* history.
C4_HistoryIsAppliedClauses ==
  [][ret'.op \in Clauses =>
       /\ ret'.err # "" => history' = history
       /\ Tags(sql') = history']_vars

\* C5: sql is append-only: over every clause call, the sql before the call is
\* a prefix of the sql after it.
C5_SqlAppendOnly == [][ret'.op \in Clauses => IsPrefix(sql, sql')]_vars

\* C5: DELETE_FROM, which assigns sql, has been applied
C5_Witness == ret.op = "DELETE_FROM" /\ ret.err = "" /\ sql # <<>>

\* C6: run does not mutate the builder: sql, history, fields and table are
\* the same after run as before it, for raw and non-raw runs.
C6_RunChangesNoBuilderState ==
  [][ret'.op = "run" => UNCHANGED <<sql, history, fields, table>>]_vars

\* a builder built as SELECT(wildcard).FROM(T), with or without a condition
IsSelectStarFrom ==
  /\ Len(sql) >= 2
  /\ sql[1].tag = "SELECT" /\ sql[1].txt = <<"*">>
  /\ sql[2].tag = "FROM"

\* C7: every non-raw run of a builder built as SELECT(wildcard).FROM(T)
\* decodes the rows against the columns T has at the time of that run.
C7_WildcardDecodedAgainstCurrentColumns ==
  (ret.op = "run" /\ ret.err = "" /\ ~ret.raw /\ IsSelectStarFrom) =>
    /\ ret.val.err = ""
    /\ Len(ret.val.recs) = Len(ret.fetched)
    /\ \A n \in 1..Len(ret.val.recs) : ret.val.recs[n].keys = dbs[ret.on][sql[2].tbl].cols

\* C8: every engine failure during run reaches the caller as DatabaseError
\* with the engine's message and the sql text.
C8_EngineFailureIsDatabaseError ==
  (ret.op = "run" /\ ret.engine # "") => (ret.err = "DatabaseError" /\ ret.text = sql)

\* C9: run executes on the database passed to it when one is passed and on
\* the attached one otherwise; with neither it fails with DatabaseError and
\* executes nothing.
C9_RunResolvesExecutor ==
  ret.op = "run" =>
    /\ ret.arg # None => ret.on = ret.arg
    /\ (ret.arg = None /\ q_db # None) => ret.on = q_db
    /\ (ret.arg = None /\ q_db = None) => (ret.on = None /\ ret.err = "DatabaseError")

IsFreshSelectFrom ==
  /\ Tags(sql) = <<"SELECT", "FROM">>
  /\ history = <<"SELECT", "FROM">>
  /\ (remove_spaces(sql[1].txt) = <<"*">>) <=> (fields = FieldsStar)
  /\ fields # FieldsStar => fields.k = "list"

\* C11: for every table T and every selection sel that is the wildcard or a
\* list of columns of T, SELECT(sel).FROM(T).run() returns one record per row
\* of T, in the row order, each tagged T, with the selected fields as keys
\* (the columns of T for the wildcard) and the row's values of those fields;
\* for the wildcard the result is that of get_table(T).
C11_SelectFromRunReturnsTheTable ==
  [][(/\ ret'.op = "run" /\ ~ret'.raw /\ ret'.on # None
      /\ IsFreshSelectFrom
      /\ is_table(ret'.on, sql[2].tbl)
      /\ fields # FieldsStar => Range(fields.l) \subseteq Range(dbs[ret'.on][sql[2].tbl].cols))
     => LET T == sql[2].tbl
            tb == dbs[ret'.on][T]
            sel == IF fields = FieldsStar THEN tb.cols ELSE fields.l
            recs == ret'.val.recs
        IN /\ ret'.err = "" /\ ret'.val.k = "table" /\ ret'.val.err = ""
           /\ Len(recs) = Len(tb.rows)
           /\ \A n \in 1..Len(recs) :
                /\ recs[n].tbl = T
                /\ recs[n].keys = sel
                /\ \A m \in 1..Len(sel) : recs[n].vals[m] = tb.rows[n][ColIdx(tb.cols, sel[m])]
           /\ fields = FieldsStar => ret'.val = get_table(ret'.on, T)]_vars

\* C11: a selection that reorders the columns was run on a table of three rows
C11_Witness ==
  /\ ret.op = "run" /\ ~ret.raw /\ ret.err = ""
  /\ Tags(sql) = <<"SELECT", "FROM">>
  /\ Len(ret.val.recs) = 3
  /\ ret.val.recs[3].keys = <<"a", "i">>
  /\ ret.val.recs[3].vals = <<StrV(<<"y">>), IntV("3")>>

\* the names and values that the last clause call was given are valid in
\* the database d
ValidCall(d) ==
  LET op == ret'.op
  IN /\ op \in {"FROM", "UPDATE", "INSERT_INTO", "DELETE_FROM"} => is_table(d, ret'.name)
     /\ op = "FROM" => /\ fields # FieldsNone
                       /\ fields # FieldsStar =>
                            Range(fields.l) \subseteq Range(get_column_names(d, ret'.name).names)
     /\ op \in {"SET", "VALUES"} =>
          /\ is_table(d, table)
          /\ Range(ret'.data.keys) \subseteq Range(get_column_names(d, table).names)
     /\ op \in {"SET", "VALUES", "WHERE", "LIKE"} =>
          \A n \in 1..Len(ret'.data.vals) :
            ret'.data.vals[n] = Omitted \/ value_to_sql_value(ret'.data.vals[n]).ok

\* C12: a builder created without a database, to be run with the database d1
\* passed to run, builds like the builder that d1's entry point creates:
\* for every statement kind, every clause call that the order check accepts
\* and whose names are valid in d1 returns without error on both.
C12_UnboundBuildsLikeBound ==
  [][(/\ ret'.op \in Clauses \ {"SELECT"} /\ ret'.order
      /\ q_db \in {None, "d1"}
      /\ ValidCall("d1")) => ret'.err = ""]_vars

\* C13: on a builder bound to a database, FROM(T) after SELECT of a list of
\* fields, T a table of the database, succeeds if and only if every selected
\* field is a column of T; otherwise it fails with QueryError, pushes no tag
\* and leaves sql as it was. So the bound builder never holds a SELECT ...
\* FROM T that names a field T does not have.
C13_FromValidatesSelectedFields ==
  [][/\ (/\ ret'.op = "FROM" /\ ret'.order
         /\ q_db # None /\ fields.k = "list" /\ is_table(q_db, ret'.name))
        => LET ok == Range(fields.l) \subseteq Range(get_column_names(q_db, ret'.name).names)
           IN /\ ret'.err = "" <=> ok
              /\ ok => /\ history' = Append(history, "FROM")
                       /\ sql' = Append(sql, Frag("FROM", ret'.name, <<>>, <<>>, <<>>, TRUE))
              /\ ~ok => /\ ret'.err = "QueryError"
                        /\ history' = history
                        /\ sql' = sql
     /\ (/\ q_db' # None /\ fields'.k = "list"
         /\ Len(sql') >= 2 /\ sql'[2].tag = "FROM")
        => Range(fields'.l) \subseteq Range(dbs'[q_db'][sql'[2].tbl].cols)]_vars

\* C13: FROM(t) failed on a bound builder that selects a field t does not have
C13_Witness ==
  /\ ret.op = "FROM" /\ ret.order /\ ret.err = "QueryError"
  /\ q_db = "d1" /\ ret.name = "t"
  /\ fields = FieldsList(<<"b">>)
  /\ history = <<"SELECT">> /\ Tags(sql) = <<"SELECT">>

\* C14: SET(values) after UPDATE(T) and VALUES(values) after INSERT_INTO(T),
\* the values being encodable, succeed if and only if the keys of values are
\* columns of T; otherwise they fail with QueryError and leave sql as it
\* was. T's columns are those in the attached database, or in d1 for a
\* builder that is to be run on d1.
C14_KeysValidatedAgainstColumns ==
  [][(/\ ret'.op \in {"SET", "VALUES"} /\ ret'.order
      /\ sql # <<>> /\ sql[Len(sql)].tag = Top
      /\ is_table(IF q_db = None THEN "d1" ELSE q_db, sql[Len(sql)].tbl)
      /\ dict_to_sql(ret'.data).ok)
     => LET d == IF q_db = None THEN "d1" ELSE q_db
            ok == Range(ret'.data.keys) \subseteq Range(get_column_names(d, sql[Len(sql)].tbl).names)
        IN /\ ret'.err = "" <=> ok
           /\ ~ok => (ret'.err = "QueryError" /\ sql' = sql)]_vars

\* C15: on a builder bound to a database, a statement-opening clause that
\* names a table the database does not have fails when it is called:
\* UPDATE with DatabaseError, DELETE_FROM with QueryError; sql stays empty.
C15_AbsentTableErrorClass ==
  [][(/\ ret'.op \in {"UPDATE", "DELETE_FROM"} /\ ret'.order
      /\ q_db # None /\ ~is_table(q_db, ret'.name))
     => /\ ret'.err = IF ret'.op = "UPDATE" THEN "DatabaseError" ELSE "QueryError"
        /\ sql' = <<>>]_vars

\* C16: WHERE(c, v) with a value v that can be encoded appends the equality
\* of c and the encoded v, or "c is null" when v is None, the empty string
\* and 0 included; only WHERE(c) without value appends c as it is.
C16_PassedValueIsAValue ==
  [][(/\ ret'.op = "WHERE" /\ ret'.order
      /\ ret'.data.vals[1] = Omitted \/ value_to_sql_value(ret'.data.vals[1]).ok)
     => LET v == ret'.data.vals[1]
            f == sql'[Len(sql')]
        IN /\ ret'.err = ""
           /\ Len(sql') = Len(sql) + 1 /\ f.tag = "WHERE"
           /\ v = Omitted => (f.keys = <<>> /\ f.vals = <<>>)
           /\ v = Null => (f.keys = <<"is">> /\ f.vals = <<<<"null">>>>)
           /\ v \notin {Omitted, Null} =>
                (f.keys = <<"=">> /\ f.vals = <<value_to_sql_value(v).txt>>)]_vars

\* two dicts are equal: the same keys with the same values
SameDict(e, f) ==
  /\ Range(e.keys) = Range(f.keys)
  /\ \A n \in 1..Len(e.keys) : e.vals[n] = f.vals[ColIdx(f.keys, e.keys[n])]

\* the table that the last call of add_entry was to insert into
Target == IF ret'.data.tbl = None THEN ret'.name ELSE ret'.data.tbl

\* C17: for every table T with a primary key and every input that add_entry
\* accepts, a plain mapping with the table name or a tagged record without
\* it, add_entry returns the key k that the engine generated, and
\* get_entry_by_id(T, k) returns a record equal to the inserted entry after
\* the null-fill, with k in its key field.
C17_AddEntryRoundTrip ==
  (/\ ret.op = "add_entry" /\ ret.err = ""
   /\ (ret.data.tbl = None) # (ret.name = None)
   /\ get_table_id_field(ret.on, ret.entry.tbl) # None)
  => /\ ret.val.k = "id"
     /\ LET k == ret.fetched[1][1]
            g == get_entry_by_id(ret.on, ret.entry.tbl, k)
        IN /\ g.err = "" /\ g.k = "entry"
           /\ SameDict(g.recs[1], SetItem(ret.entry, get_table_id_field(ret.on, ret.entry.tbl), k))

\* C18: every successful add_entry appends exactly one row to its table and
\* leaves the rows the table had, and every other table, as they were; and
\* add_entry of a plain mapping with exactly the table's columns succeeds
\* also when the mapping's key value is the key of an existing row.
C18_AddEntryFrame ==
  [][/\ (ret'.op = "add_entry" /\ ret'.err = "")
        => /\ Len(dbs'[ret'.on][Target].rows) = Len(dbs[ret'.on][Target].rows) + 1
           /\ IsPrefix(dbs[ret'.on][Target].rows, dbs'[ret'.on][Target].rows)
           /\ dbs'[ret'.on][Target].cols = dbs[ret'.on][Target].cols
           /\ \A d \in DbIds, t \in TableNames :
                <<d, t>> # <<ret'.on, Target>> => dbs'[d][t] = dbs[d][t]
     /\ (/\ ret'.op = "add_entry" /\ ret'.data.tbl = None
         /\ is_table(ret'.on, ret'.name)
         /\ Range(ret'.data.keys) = Range(dbs[ret'.on][ret'.name].cols)
         /\ "i" \in Range(ret'.data.keys)
         /\ ret'.data.vals[ColIdx(ret'.data.keys, "i")] # Null
         /\ number(ret'.data.vals[ColIdx(ret'.data.keys, "i")].s) \in Ids(dbs[ret'.on][ret'.name]))
        => ret'.err = ""]_vars

\* C18: a mapping that carries the key of the first row was added as a third row
C18_Witness ==
  /\ ret.op = "add_entry" /\ ret.err = "" /\ ret.on = "d1"
  /\ ret.data = Entry(None, <<"i", "a">>, <<IntV("1"), StrV(<<"y">>)>>)
  /\ Len(dbs["d1"]["t"].rows) = 3
  /\ dbs["d1"]["t"].rows[1] = <<IntV("1"), StrV(<<"x">>)>>
  /\ dbs["d1"]["t"].rows[3] = <<IntV("3"), StrV(<<"y">>)>>

\* C19: add_entry into an existing table fails with DatabaseError, and
\* inserts no row, whenever the entry's keys, with the key field set and,
\* under fill_null, every column of the table added, are not exactly the
\* table's columns.
C19_KeySetMismatchIsDatabaseError ==
  [][(/\ ret'.op = "add_entry" /\ is_table(ret'.on, Target)
      /\ LET cols == Range(dbs[ret'.on][Target].cols)
             id == IF "i" \in cols THEN {"i"} ELSE {}
             final == Range(ret'.data.keys) \cup id \cup (IF ret'.fill THEN cols ELSE {})
         IN final # cols)
     => (ret'.err = "DatabaseError" /\ dbs' = dbs)]_vars

\* C20: add_entry whose table does not exist in the database fails with
\* DatabaseError and changes no table.
C20_AbsentTableIsDatabaseError ==
  [][(/\ ret'.op = "add_entry" /\ Target # None /\ ~is_table(ret'.on, Target))
     => (ret'.err = "DatabaseError" /\ dbs' = dbs)]_vars


\* ------------------------------------------------- rows updated and deleted
\* the table that a call of update_entry names: the tag of the entry, or the
\* table argument for a plain dict
UpdateTable(r) == IF r.data.tbl = None THEN r.name ELSE r.data.tbl

KeyIdx(tb) == ColIdx(tb.cols, "i")

HasKey(tb) == tb.is /\ "i" \in Range(tb.cols)

\* the places of the rows of tb whose primary key is v
RowsWithKey(tb, v) == {n \in 1..Len(tb.rows) : tb.rows[n][KeyIdx(tb)] = v}

\* the call recorded in r gave update_entry the key of a row of a keyed
\* table T of database r.on, as that table is in tables
UpdatesARow(r, tables) ==
  /\ r.op = "update_entry"
  /\ UpdateTable(r) \in TableNames
  /\ HasKey(tables[r.on][UpdateTable(r)])
  /\ "i" \in Range(r.data.keys)
  /\ RowsWithKey(tables[r.on][UpdateTable(r)], GetItem(r.data, "i")) # {}

\* C21: for a row of T and a mapping with the row's key and a strict subset
\* of T's columns, update_entry with part alone succeeds, sets the given
\* columns and leaves the omitted columns of the row as they were, and
\* update_entry with fill_null succeeds, sets the given columns and sets the
\* omitted columns of the row to null.
C21_PartKeepsFillNullNulls ==
  [][LET r == ret'
         T == UpdateTable(r)
         old == dbs[r.on][T]
         new == dbs'[r.on][T]
     IN (/\ UpdatesARow(r, dbs)
         /\ Range(r.data.keys) \subseteq Range(old.cols)
         /\ Range(r.data.keys) # Range(old.cols)
         /\ r.part \/ r.fill)
        => /\ r.err = ""
           /\ Len(new.rows) = Len(old.rows)
           /\ \A n \in RowsWithKey(old, GetItem(r.data, "i")) :
                \A c \in 1..Len(old.cols) :
                  new.rows[n][c] = IF old.cols[c] \in Range(r.data.keys)
                                   THEN GetItem(r.data, old.cols[c])
                                   ELSE IF r.fill THEN Null
                                   ELSE old.rows[n][c]]_vars

\* a part update of column a of the row with key 1 has kept its column b
C21_Witness ==
  /\ ret.op = "update_entry" /\ ret.err = "" /\ ret.part /\ ~ret.fill
  /\ ret.data.keys = <<"i", "a">>
  /\ \E n \in 1..Len(dbs["d1"]["t"].rows) :
       dbs["d1"]["t"].rows[n] = <<IntV("1"), StrV(<<"z">>), StrV(<<"p">>)>>

\* C22: on an existing keyed table update_entry fails with DatabaseError
\* when the keys of the mapping differ from the columns and neither part nor
\* fill_null is set, and when part is set and the keys are no subset of the
\* columns; every failure of update_entry there, that of a part mapping
\* without the key field included, is a DatabaseError and changes no row.
C22_UpdateFailuresAreDatabaseErrors ==
  [][LET r == ret'
         T == UpdateTable(r)
         cols == dbs[r.on][T].cols
     IN (r.op = "update_entry" /\ T \in TableNames /\ HasKey(dbs[r.on][T]))
        => /\ (Range(r.data.keys) # Range(cols) /\ ~r.part /\ ~r.fill) => r.err = "DatabaseError"
           /\ (r.part /\ ~(Range(r.data.keys) \subseteq Range(cols))) => r.err = "DatabaseError"
           /\ r.err # "" => r.err = "DatabaseError" /\ dbs' = dbs]_vars

\* the call recorded in r is an update or a delete of the facade on a table
\* of database r.on that exists and has no primary key
OnKeylessTable(r, tables) ==
  LET T == IF r.op = "update_entry" THEN UpdateTable(r)
           ELSE IF r.op = "delete_entry" THEN r.data.tbl
           ELSE r.name
  IN /\ r.op \in {"update_entry", "delete_entry", "delete_entry_by_id"}
     /\ T \in TableNames
     /\ tables[r.on][T].is
     /\ ~HasKey(tables[r.on][T])

\* C23: on a table without primary key update_entry, delete_entry and
\* delete_entry_by_id fail with DatabaseError before any statement is handed
\* to the engine, and no row is changed or deleted.
C23_KeylessTableIsDatabaseError ==
  [][OnKeylessTable(ret', dbs)
     => ret'.err = "DatabaseError" /\ ret'.text = <<>> /\ dbs' = dbs]_vars

\* C24: a successful update_entry changes at most the row whose primary key
\* is the key value of the mapping: the table keeps its number of rows,
\* every other row is as it was, and so is every other table.
C24_UpdateChangesOneRowAtMost ==
  [][LET r == ret'
         T == UpdateTable(r)
         old == dbs[r.on][T]
         new == dbs'[r.on][T]
     IN (r.op = "update_entry" /\ r.err = "")
        => /\ HasKey(old)
           /\ Len(new.rows) = Len(old.rows)
           /\ \A n \in 1..Len(old.rows) :
                old.rows[n][KeyIdx(old)] # GetItem(r.entry, "i") => new.rows[n] = old.rows[n]
           /\ \A d \in DbIds, t \in TableNames : <<d, t>> # <<r.on, T>> => dbs'[d][t] = dbs[d][t]]_vars

\* the row with key 1 was updated next to the row with key 2
C24_Witness ==
  /\ ret.op = "update_entry" /\ ret.err = ""
  /\ GetItem(ret.entry, "i") = IntV("1")
  /\ Len(dbs["d1"]["t"].rows) = 2
  /\ dbs["d1"]["t"].rows[1] = <<IntV("1"), StrV(<<"z">>), StrV(<<"w">>)>>
  /\ dbs["d1"]["t"].rows[2] = <<IntV("2"), StrV(<<"y">>), StrV(<<"q">>)>>

\* the delete that the call recorded in r made, q being the statement of the
\* builder: [is, T, key], the table and the key value that DELETE_FROM(T)
\* .WHERE("i", key).run(), delete_entry or delete_entry_by_id named
DeleteOf(r, q) ==
  IF r.op = "delete_entry_by_id"
  THEN [is |-> TRUE, T |-> r.name, key |-> r.data.vals[1]]
  ELSE IF r.op = "delete_entry" /\ r.data.tbl # None /\ "i" \in Range(r.data.keys)
  THEN [is |-> TRUE, T |-> r.data.tbl, key |-> GetItem(r.data, "i")]
  ELSE IF /\ r.op = "run" /\ r.on # None
          /\ Tags(q) = <<"DELETE_FROM", "WHERE">>
          /\ q[2].txt = <<"i">> /\ q[2].keys = <<"=">>
  THEN [is |-> TRUE, T |-> q[1].tbl, key |-> [ty |-> "int", s |-> q[2].vals[1]]]
  ELSE [is |-> FALSE, T |-> None, key |-> Null]

\* C25: when exactly one row of a keyed table T has primary key v, deleting
\* v through DELETE_FROM(T).WHERE(pk, v).run(), delete_entry or
\* delete_entry_by_id succeeds, makes T one row shorter, removes that row and
\* leaves the other rows as they were and in their order; whatever number of
\* rows was inserted before, none of the rows that remain has key v.
C25_DeleteRemovesExactlyTheRow ==
  [][LET c == DeleteOf(ret', sql)
         old == dbs[ret'.on][c.T]
         new == dbs'[ret'.on][c.T]
         other(row) == row[KeyIdx(old)] # c.key
     IN (/\ c.is
         /\ c.T \in TableNames
         /\ HasKey(old)
         /\ Cardinality(RowsWithKey(old, c.key)) = 1)
        => /\ ret'.err = ""
           /\ Len(new.rows) = Len(old.rows) - 1
           /\ new.rows = SelectSeq(old.rows, other)
           /\ RowsWithKey(new, c.key) = {}]_vars

\* three rows were in t and the row with key 2 was deleted by the builder
C25_Witness ==
  /\ ret.op = "run" /\ ret.err = ""
  /\ Tags(sql) = <<"DELETE_FROM", "WHERE">>
  /\ sql[2].vals = <<<<"2">>>>
  /\ Len(dbs["d1"]["t"].rows) = 2
  /\ dbs["d1"]["t"].rows[1][1] = IntV("1")
  /\ dbs["d1"]["t"].rows[2][1] = IntV("3")

\* C26: delete_entry and delete_entry_by_id for a key that no row of the
\* keyed table has fail with DatabaseError and leave the number of rows as it
\* was.
C26_DeleteOfAbsentKeyIsDatabaseError ==
  [][LET c == DeleteOf(ret', sql)
     IN (/\ ret'.op \in {"delete_entry", "delete_entry_by_id"}
         /\ c.is
         /\ c.T \in TableNames
         /\ HasKey(dbs[ret'.on][c.T])
         /\ RowsWithKey(dbs[ret'.on][c.T], c.key) = {})
        => /\ ret'.err = "DatabaseError"
           /\ Len(dbs'[ret'.on][c.T].rows) = Len(dbs[ret'.on][c.T].rows)]_vars

\* C27: get_entry_by_id(T, id) on a table T fails with DatabaseError when T
\* has no primary key, when no row of T has key id and when more than one
\* has; otherwise it returns the record of the one matching row, tagged T,
\* with the column names of T as keys, equal to the record that get_table(T)
\* yields for that row.
C27_GetEntryByIdCases ==
  (ret.op = "get_entry_by_id" /\ ret.name \in TableNames /\ dbs[ret.on][ret.name].is)
  => LET tb == dbs[ret.on][ret.name]
         id == ret.data.vals[1]
         all == get_table(ret.on, ret.name).recs
     IN IF ~HasKey(tb) \/ Cardinality(RowsWithKey(tb, id)) # 1
        THEN ret.err = "DatabaseError"
        ELSE /\ ret.err = ""
             /\ Len(ret.val.recs) = 1
             /\ ret.val.recs[1].tbl = ret.name
             /\ ret.val.recs[1].keys = tb.cols
             /\ \A n \in RowsWithKey(tb, id) : ret.val.recs[1] = all[n]

\* the second row of a table of two rows was fetched by its key
C27_Witness ==
  /\ ret.op = "get_entry_by_id" /\ ret.err = "" /\ ret.name = "t"
  /\ ret.data.vals = <<IntV("2")>>
  /\ Len(dbs[ret.on]["t"].rows) >= 2
  /\ ret.val.recs[1].vals = <<IntV("2"), StrV(<<"y">>)>>

\* ------------------------------------------------------ encoding, decoding
\* C28: from_raw_entry fails with DatabaseError whenever the length of the
\* row differs from the number of fields; raw_table_to_table fails with
\* DatabaseError whenever some row, the first or a later one, has a width
\* other than the number of fields; and a record that either of them yields
\* holds every value of its row.
C28_WidthMismatchIsDatabaseError ==
  /\ ret.op = "from_raw_entry"
     => /\ Len(ret.fetched[1]) # Len(ret.data.keys) => ret.err = "DatabaseError"
        /\ ret.err = "" => ret.val.recs[1].vals = ret.fetched[1]
  /\ ret.op = "raw_table_to_table"
     => /\ (\E n \in 1..Len(ret.fetched) : Len(ret.fetched[n]) # Len(ret.data.keys))
           => ret.err = "DatabaseError"
        /\ ret.err = "" => \A n \in 1..Len(ret.val.recs) : ret.val.recs[n].vals = ret.fetched[n]

\* the number of single quotes in a text
Quotes(t) == Cardinality({n \in 1..Len(t) : t[n] = "'"})

\* C29: value_to_sql_value succeeds on null, integers, reals, texts and lists
\* of texts and fails with TypeError on every other value: a text becomes
\* the text in single quotes with each of its single quotes doubled, an
\* integer or a real its numeral, null the literal null, a list of texts its
\* elements joined by commas; a list with an element that is no text fails
\* with TypeError.
C29_EncodeIsTotalOnTheClosedSet ==
  ret.op = "value_to_sql_value"
  => LET v == ret.data.vals[1]
         txt == ret.val.recs[1]
     IN IF v.ty = "str"
        THEN /\ ret.err = ""
             /\ Len(txt) = Len(v.s) + Quotes(v.s) + 2
             /\ txt[1] = "'" /\ txt[Len(txt)] = "'"
             /\ undouble(SubSeq(txt, 2, Len(txt) - 1)) = v.s
        ELSE IF v.ty \in {"int", "float"} THEN ret.err = "" /\ txt = v.s
        ELSE IF v.ty = "null" THEN ret.err = "" /\ txt = <<"null">>
        ELSE IF v.ty = "list"
        THEN /\ ret.err = ""
             /\ txt = [n \in 1..(2 * Len(v.s) - 1) |-> IF n % 2 = 1 THEN v.s[(n + 1) \div 2] ELSE ","]
        ELSE ret.err = "TypeError"

\* C30: the row read from d1.t, decoded against the columns of t and given
\* to INSERT_INTO("t").VALUES(record) on the database d2 whose table t has the
\* same columns and no row, is accepted by VALUES, whatever text, null or
\* blob it holds, and run leaves in d2.t exactly one row, equal to the row
\* read.
C30_DecodeThenInsertIsTheRow ==
  [][/\ (ret'.op = "VALUES" /\ q_db = "d2" /\ history = <<"INSERT_INTO">> /\ Len(sql) = 1)
        => ret'.err = ""
     /\ (/\ ret'.op = "run" /\ ret'.on = "d2"
         /\ Tags(sql) = <<"INSERT_INTO", "VALUES">>
         /\ dbs["d2"]["t"].rows = <<>>)
        => ret'.err = "" /\ dbs'["d2"]["t"].rows = dbs["d1"]["t"].rows]_vars

\* ------------------------------------------------------------ the catalog
\* C31: get_table_cols and get_column_names fail with DatabaseError for a
\* table that does not exist; neither returns an empty list of columns for
\* it.
C31_AbsentTableHasNoColumns ==
  (ret.op \in {"get_table_cols", "get_column_names"} /\ ~dbs[ret.on][ret.name].is)
  => ret.err = "DatabaseError" /\ ret.val.recs # <<<<>>>>

\* C32: whatever tables and columns were created, renamed and deleted
\* before, a catalog query answers with the schema that the engine has when
\* it is called: get_table_names with the tables that exist, is_table with
\* whether the name is one of them, get_table_cols and get_column_names with
\* the columns the table has now, is_column with whether the name is one of
\* these; a table or column that was renamed or deleted is not found under
\* its old name.
C32_CatalogQueriesReadTheEngine ==
  LET tb == dbs[ret.on][ret.name]
  IN /\ ret.op = "get_table_names"
        => ret.err = "" /\ ret.val.recs = <<{t \in TableNames : dbs[ret.on][t].is}>>
     /\ ret.op = "is_table" => ret.err = "" /\ ret.val.recs = <<tb.is>>
     /\ (ret.op = "get_table_cols" /\ tb.is) => ret.err = "" /\ ret.val.recs = <<tb.cols>>
     /\ (ret.op = "get_column_names" /\ tb.is) => ret.err = "" /\ ret.val.recs = <<tb.cols>>
     /\ (ret.op = "is_column" /\ tb.is)
        => ret.err = "" /\ ret.val.recs = <<ret.data.keys[1] \in Range(tb.cols)>>
     /\ (ret.op \in {"get_column_names", "is_column"} /\ ~tb.is) => ret.err = "DatabaseError"

\* table t of d1 was renamed to n and is no longer found under the name t
C32_Witness ==
  /\ ret.op = "is_table" /\ ret.on = "d1" /\ ret.name = "t" /\ ret.val.recs = <<FALSE>>
  /\ dbs["d1"]["n"].is /\ dbs["d1"]["n"].cols[1] = "i" /\ Len(dbs["d1"]["n"].rows) = 2

\* ---------------------------------------------------------------- C33
\* C33: there is no automatic rollback. A statement of the builder or of the
\* facade that fails, at validation or in the engine, leaves the tables of
\* every database as they were before it: the effects of the earlier
\* statements stay and the failing one adds none of its own.
C33_FailedStatementAppliesNothing == [][ret'.err # "" => dbs' = dbs]_vars

\* a statement has failed in the engine after an earlier statement had
\* changed the tables
C33_Witness ==
  /\ ret.err # "" /\ ret.engine # ""
  /\ ret.op \in {"delete_entry", "delete_entry_by_id"}
  /\ dbs # file

\* ---------------------------------------------------------------- C37
\* C37: every fragment that a clause method appended to sql ends with a
\* separating space, so that no two fragments of the text run together.
C37_EveryFragmentEndsWithASpace == \A n \in 1..Len(sql) : sql[n].sp

\* ---------------------------------------------------------------- C35
\* C35: get_table(T, get_only=L) with L a non-empty list of columns of the
\* table T returns, and the sequence it returns yields one record per row
\* of T, in the order of the rows, whose keys are the fields of L and whose
\* values are the values of that row in those fields.
C35_GetOnlyYieldsTheChosenFields ==
  (/\ ret.op = "get_table" /\ ret.data.keys # <<>>
   /\ dbs[ret.on][ret.name].is
   /\ Range(ret.data.keys) \subseteq Range(dbs[ret.on][ret.name].cols))
  => LET tb == dbs[ret.on][ret.name]
         L == ret.data.keys
     IN /\ ret.err = "" /\ ret.val.err = ""
        /\ Len(ret.val.recs) = Len(tb.rows)
        /\ \A n \in 1..Len(ret.val.recs) :
             /\ Range(ret.val.recs[n].keys) = Range(L)
             /\ \A k \in Range(L) : GetItem(ret.val.recs[n], k) = tb.rows[n][ColIdx(tb.cols, k)]

\* ------------------------------------------------------- the connection
\* C39: foreign-key enforcement is switched on in every state in which the
\* Database is connected, after construction and after close and reconnect.
C39_ConnectedHasForeignKeysOn == \A d \in DbIds : conn[d].connected => conn[d].foreign_keys

\* C34 as stated: whenever a closed Database is connected again, by
\* reconnect or by a new Database on its path, every table holds the rows
\* and columns it held just before close.
C34_ReopenedHoldsWhatCloseLeft ==
  [][\A d \in DbIds : (~conn[d].connected /\ conn'[d].connected) => dbs'[d] = dbs[d]]_vars

\* C34, amended: whenever a closed Database on a file is connected again, by
\* reconnect or by a new Database on its path, every table holds the rows
\* and columns it held just before close, saved earlier or not.
C34_ReopenedFileHoldsWhatCloseLeft ==
  [][\A d \in DbIds :
       (~conn[d].connected /\ conn'[d].connected /\ conn[d].path # ":memory:")
       => dbs'[d] = dbs[d]]_vars

\* a Database on a file was connected again after rows that no save had
\* committed were written and the connection closed
C34_Witness ==
  /\ ret.op \in {"reconnect", "Database"}
  /\ conn["d1"].path = "file" /\ conn["d1"].connected
  /\ Len(dbs["d1"]["t"].rows) = 2
  /\ dbs["d1"]["t"].rows[1][1] = IntV("2")

\* ---------------------------------------------------------------- C36
\* C36: run performs no clause-order check. Whatever the history, a run
\* that has a database (its argument, or else the one of the builder) hands
\* the current sql to the cursor of that database, and what the call leaves
\* is what the engine made of that text: its exception or its tables.
C36_RunSendsSqlWhateverTheHistory ==
  [][(ret'.op = "run" /\ (ret'.arg # None \/ q_db # None))
     => LET d == IF ret'.arg # None THEN ret'.arg ELSE q_db
            r == execute(dbs[d], sql)
        IN /\ ret'.on = d /\ ret'.order
           /\ ret'.engine = r.err
           /\ dbs' = [dbs EXCEPT ![d] = r.tables]
           /\ history' = history /\ sql' = sql]_vars

\* a statement that stops at INSERT_INTO, which the transition table does
\* not mark terminal, was run and the engine rejected its text
C36_Witness ==
  /\ ret.op = "run" /\ ret.on # None
  /\ Top = "INSERT_INTO"
  /\ ret.engine = "OperationalError" /\ ret.text = sql

\* ---------------------------------------------------------------- C38
\* C38: the records that the sequence returned by run or by get_table
\* yields when it is consumed are those of the rows at the time of the
\* call, whatever was executed on the connection in between.
C38_SequenceIsASnapshot ==
  [][(gen.live /\ ret'.op = "consume") => ret'.val = gen.at_call]_vars

\* a sequence taken when t held one row was consumed after that row was
\* deleted: it still yields the row
C38_Witness ==
  /\ ret.op = "consume" /\ ret.val.err = ""
  /\ Len(ret.val.recs) = 1
  /\ dbs["d1"]["t"].rows = <<>>
====
